---- MODULE Spec2Model ----
(***************************************************************************)
(* Model of src/src/utils/utils.js: the thought-signature cache            *)
(* (thoughtSignatureMap, textThoughtSignatureMap), the text normalisation  *)
(* used for its keys, the fold of OpenAI chat messages into Antigravity    *)
(* contents, and the assembly of the request body.                         *)
(*                                                                         *)
(* Texts that the code trims, normalises or searches are sequences of      *)
(* one-character strings; ids, signatures and function names, which the    *)
(* code only compares and tests for emptiness, are TLA+ strings.           *)
(***************************************************************************)
EXTENDS Integers, Sequences, FiniteSets, TLC

VARIABLES
    thoughtSignatureMap,      \* utils.js:8   Map: tool-call id -> signature
    textThoughtSignatureMap,  \* utils.js:9   Map: text key -> {signature, text}
    lastCall,                 \* the most recent register call and its arguments
    puts,                     \* number of register calls made so far
    normPc,                   \* position of the normalisation run
    normIn,                   \* argument of normalizeTextForSignature
    normOnce,                 \* normalizeTextForSignature(normIn)
    normTwice,                \* normalizeTextForSignature(normOnce)
    pc,                       \* position of generateRequestBody: idle, folding, done
    modelName,                \* generateRequestBody's modelName argument
    openaiMessages,           \* generateRequestBody's openaiMessages, as far as read
    antigravityMessages,      \* the array openaiMessageToAntigravity is building
    requestBody,              \* what generateRequestBody returned
    config,                   \* the imported configuration
    parameters,               \* the parameters of the request
    token,                    \* the token of the request
    requestIds,               \* how many request ids have been generated
    openaiTools,              \* the tools of the request
    geminiRequest,            \* the native request handed to the pass-through
    schemaPc,                 \* the sanitizer run: "start", "once", "twice"
    schemaIn,                 \* the schema of the sanitizer run
    schemaOnce,               \* cleanJsonSchema(schemaIn)
    schemaTwice               \* cleanJsonSchema(schemaOnce)

vars == <<thoughtSignatureMap, textThoughtSignatureMap, lastCall, puts,
          normPc, normIn, normOnce, normTwice,
          pc, modelName, openaiMessages, antigravityMessages, requestBody,
          config, parameters, token, requestIds, openaiTools, geminiRequest,
          schemaPc, schemaIn, schemaOnce, schemaTwice>>

cacheVars == <<thoughtSignatureMap, textThoughtSignatureMap, lastCall, puts>>
normVars == <<normPc, normIn, normOnce, normTwice>>
requestVars == <<pc, modelName, openaiMessages, antigravityMessages, requestBody,
                 config, parameters, token, requestIds, openaiTools,
                 geminiRequest>>
schemaVars == <<schemaPc, schemaIn, schemaOnce, schemaTwice>>

----------------------------------------------------------------------------
(* Bounds *)

\* Number of fragments a text of the normalisation run is built from.
MaxFrags == 4
\* Number of register calls in a run of the cache.
MaxPuts == 3
\* Number of messages of a request in the fold run.
MaxMsgs == 3
\* Number of messages of a request in the signature run.
MaxSigMsgs == 2
MaxAsmMsgs == 3
MaxToolMsgs == 3
MaxNest == 1

----------------------------------------------------------------------------
(* JavaScript strings as sequences of characters *)

\* The characters String.prototype.trim removes (those the texts here use).
WhiteSpace == {" ", "\t", "\n", "\r"}

RECURSIVE TrimStart(_)
TrimStart(s) ==
    IF s # <<>> /\ Head(s) \in WhiteSpace THEN TrimStart(Tail(s)) ELSE s

RECURSIVE TrimEnd(_)
TrimEnd(s) ==
    IF s # <<>> /\ s[Len(s)] \in WhiteSpace
    THEN TrimEnd(SubSeq(s, 1, Len(s) - 1))
    ELSE s

\* String.prototype.trim
Trim(s) == TrimEnd(TrimStart(s))

\* s has pat at position i
StartsWithAt(s, i, pat) ==
    /\ i >= 1
    /\ i + Len(pat) - 1 <= Len(s)
    /\ SubSeq(s, i, i + Len(pat) - 1) = pat

\* position of the first occurrence of pat in s at or after from, 0 when none
IndexOfFrom(s, pat, from) ==
    LET hits == {j \in from..Len(s) : StartsWithAt(s, j, pat)}
    IN  IF hits = {} THEN 0 ELSE CHOOSE j \in hits : \A k \in hits : j <= k

\* String.prototype.includes
Includes(s, pat) == IndexOfFrom(s, pat, 1) # 0

\* String.prototype.startsWith / endsWith
StartsWith(s, pat) == StartsWithAt(s, 1, pat)
EndsWith(s, pat) == StartsWithAt(s, Len(s) - Len(pat) + 1, pat)

ThinkOpen == <<"<", "t", "h", "i", "n", "k", ">">>
ThinkClose == <<"<", "/", "t", "h", "i", "n", "k", ">">>

\* .replace(/<think>[\s\S]*?<\/think>/g, ''): left to right, each "<think>"
\* that has a later "</think>" is removed up to the nearest one; the scan
\* resumes after the match.
RECURSIVE StripThinkFrom(_, _)
StripThinkFrom(s, i) ==
    IF i > Len(s) THEN <<>>
    ELSE LET close == IF StartsWithAt(s, i, ThinkOpen)
                      THEN IndexOfFrom(s, ThinkClose, i + Len(ThinkOpen))
                      ELSE 0
         IN  IF close # 0
             THEN StripThinkFrom(s, close + Len(ThinkClose))
             ELSE <<s[i]>> \o StripThinkFrom(s, i + 1)

StripThink(s) == StripThinkFrom(s, 1)

\* End of a match of /!\[[^\]]*]\([^)]+\)/ that starts at i, 0 when none:
\* "![", then up to the first "]", which "(" must follow, then at least one
\* character up to the first ")".
ImageMatchEnd(s, i) ==
    IF ~StartsWithAt(s, i, <<"!", "[">>) THEN 0
    ELSE LET p == IndexOfFrom(s, <<"]">>, i + 2)
         IN  IF p = 0 \/ ~StartsWithAt(s, p + 1, <<"(">>) THEN 0
             ELSE LET q == IndexOfFrom(s, <<")">>, p + 2)
                  IN  IF q = 0 \/ q < p + 3 THEN 0 ELSE q

\* .replace(/!\[[^\]]*]\([^)]+\)/g, '')
RECURSIVE StripImagesFrom(_, _)
StripImagesFrom(s, i) ==
    IF i > Len(s) THEN <<>>
    ELSE LET e == ImageMatchEnd(s, i)
         IN  IF e # 0
             THEN StripImagesFrom(s, e + 1)
             ELSE <<s[i]>> \o StripImagesFrom(s, i + 1)

StripImages(s) == StripImagesFrom(s, 1)

\* .replace(/\r\n/g, '\n')
RECURSIVE CrlfToLfFrom(_, _)
CrlfToLfFrom(s, i) ==
    IF i > Len(s) THEN <<>>
    ELSE IF StartsWithAt(s, i, <<"\r", "\n">>)
         THEN <<"\n">> \o CrlfToLfFrom(s, i + 2)
         ELSE <<s[i]>> \o CrlfToLfFrom(s, i + 1)

CrlfToLf(s) == CrlfToLfFrom(s, 1)

\* normalizeTextForSignature (texts are strings here, so line 22 never returns)
normalizeTextForSignature(text) ==
    Trim(CrlfToLf(StripImages(StripThink(text))))

----------------------------------------------------------------------------
(* The normalisation run: one text, normalised once and then again *)

\* The pieces the texts of the normalisation run are concatenated from.
Fragments ==
    { ThinkOpen, ThinkClose, <<"<", "t", "h", "i">>, <<"n", "k", ">">>,
      <<"!", "[">>, <<"]", "(">>, <<")">>, <<"\r">>, <<"\r", "\n">>, <<"\n">>,
      <<" ">>, <<"a">> }

RECURSIVE Concat(_)
Concat(ss) == IF ss = <<>> THEN <<>> ELSE Head(ss) \o Concat(Tail(ss))

\* the texts made of at most n fragments
NormTexts(n) ==
    UNION { {Concat(fs) : fs \in [1..k -> Fragments]} : k \in 0..n }

NoText == <<>>

NormIdle ==
    /\ normPc = "start"
    /\ normIn = NoText
    /\ normOnce = NoText
    /\ normTwice = NoText

NormInit ==
    /\ normPc = "start"
    /\ normIn \in NormTexts(MaxFrags)
    /\ normOnce = NoText
    /\ normTwice = NoText

NormalizeOnce ==
    /\ normPc = "start"
    /\ normOnce' = normalizeTextForSignature(normIn)
    /\ normPc' = "once"
    /\ UNCHANGED <<normIn, normTwice, cacheVars, requestVars, schemaVars>>

NormalizeTwice ==
    /\ normPc = "once"
    /\ normTwice' = normalizeTextForSignature(normOnce)
    /\ normPc' = "twice"
    /\ UNCHANGED <<normIn, normOnce, cacheVars, requestVars, schemaVars>>

----------------------------------------------------------------------------
(* The signature cache *)

\* JavaScript's undefined, as returned by Map.prototype.get on a missing key
Undefined == "undefined"
UndefinedEntry == [undefined |-> TRUE]

EmptyMap == [k \in {} |-> Undefined]

\* Map.prototype.set
MapSet(m, k, v) == [x \in DOMAIN m \cup {k} |-> IF x = k THEN v ELSE m[x]]

\* registerThoughtSignature without the test of line 12
registerThoughtSignature_NoGuard(map, id, thoughtSignature) ==
    MapSet(map, id, thoughtSignature)

\* registerThoughtSignature(id, thoughtSignature): the map afterwards
registerThoughtSignature(map, id, thoughtSignature) ==
    IF id = "" \/ thoughtSignature = "" THEN map
    ELSE MapSet(map, id, thoughtSignature)

\* getThoughtSignature(id)
getThoughtSignature(map, id) ==
    IF id = "" THEN Undefined
    ELSE IF id \in DOMAIN map THEN map[id] ELSE Undefined

\* registerTextThoughtSignature storing the raw text key only
registerTextThoughtSignature_RawKeyOnly(map, text, thoughtSignature) ==
    IF text = <<>> \/ thoughtSignature = "" THEN map
    ELSE MapSet(map, text, [signature |-> thoughtSignature, text |-> text])

\* registerTextThoughtSignature(text, thoughtSignature): the map afterwards
registerTextThoughtSignature(map, text, thoughtSignature) ==
    IF text = <<>> \/ thoughtSignature = "" THEN map
    ELSE LET originalText == text
             trimmed == Trim(originalText)
             normalized == normalizeTextForSignature(trimmed)
             payload == [signature |-> thoughtSignature, text |-> originalText]
             m1 == IF originalText # <<>>
                   THEN MapSet(map, originalText, payload) ELSE map
             m2 == IF normalized # <<>>
                   THEN MapSet(m1, normalized, payload) ELSE m1
             m3 == IF trimmed # <<>> /\ trimmed # normalized
                   THEN MapSet(m2, trimmed, payload) ELSE m2
         IN  m3

\* getTextThoughtSignature without the blank-text test of line 48
getTextThoughtSignature_NoBlankGuard(map, text) ==
    IF text \in DOMAIN map THEN map[text]
    ELSE LET trimmed == Trim(text)
         IN  IF trimmed \in DOMAIN map THEN map[trimmed]
             ELSE LET normalized == normalizeTextForSignature(trimmed)
                  IN  IF normalized = <<>> THEN UndefinedEntry
                      ELSE IF normalized \in DOMAIN map THEN map[normalized]
                      ELSE UndefinedEntry

\* getTextThoughtSignature(text)
getTextThoughtSignature(map, text) ==
    IF Trim(text) = <<>> THEN UndefinedEntry
    ELSE IF text \in DOMAIN map THEN map[text]
    ELSE LET trimmed == Trim(text)
         IN  IF trimmed \in DOMAIN map THEN map[trimmed]
             ELSE LET normalized == normalizeTextForSignature(trimmed)
                  IN  IF normalized = <<>> THEN UndefinedEntry
                      ELSE IF normalized \in DOMAIN map THEN map[normalized]
                      ELSE UndefinedEntry

\* Inputs of the cache run
Ids == {"call_1", "call_2"}
Sigs == {"sigA", "sigB"}

T_H == <<"H">>
T_Hsp == <<"H", " ">>
T_spHcrlf == <<" ", "H", " ", "\r", "\n", " ">>
T_HcrlfH == <<"H", "\r", "\n", "H">>
T_HlfH == <<"H", "\n", "H">>
T_think == ThinkOpen \o <<"H">> \o ThinkClose
T_thinkH == ThinkOpen \o <<"a">> \o ThinkClose \o <<"H">>

CacheTexts ==
    { <<>>, <<" ">>, T_H, T_Hsp, T_spHcrlf, T_HcrlfH, T_HlfH, T_think, T_thinkH }

NoCall == [op |-> "none", id |-> "", text |-> <<>>, sig |-> ""]

CacheInit ==
    /\ thoughtSignatureMap = EmptyMap
    /\ textThoughtSignatureMap = EmptyMap
    /\ lastCall = NoCall
    /\ puts = 0

\* a call of registerThoughtSignature(id, sig)
RegisterThoughtSignature(id, sig) ==
    /\ pc = "idle"
    /\ puts < MaxPuts
    /\ thoughtSignatureMap' = registerThoughtSignature(thoughtSignatureMap, id, sig)
    /\ lastCall' = [op |-> "put", id |-> id, text |-> <<>>, sig |-> sig]
    /\ puts' = puts + 1
    /\ UNCHANGED <<textThoughtSignatureMap, normVars, requestVars, schemaVars>>

\* a call of registerTextThoughtSignature(text, sig)
RegisterTextThoughtSignature(text, sig) ==
    /\ pc = "idle"
    /\ puts < MaxPuts
    /\ textThoughtSignatureMap' =
           registerTextThoughtSignature(textThoughtSignatureMap, text, sig)
    /\ lastCall' = [op |-> "putForText", id |-> "", text |-> text, sig |-> sig]
    /\ puts' = puts + 1
    /\ UNCHANGED <<thoughtSignatureMap, normVars, requestVars, schemaVars>>

----------------------------------------------------------------------------
(* Chat messages and backend turns *)

\* message.content: a string, an array of typed items, an object, or null
StringContent(t) == [kind |-> "string", text |-> t, items |-> <<>>]
ArrayContent(items) == [kind |-> "array", text |-> <<>>, items |-> items]
NullContent == [kind |-> "null", text |-> <<>>, items |-> <<>>]
\* an object content; text is its text field, empty when it has none
ObjectContent(t) == [kind |-> "object", text |-> t, items |-> <<>>]
NumberContent == [kind |-> "number", text |-> <<>>, items |-> <<>>]

TextItem(t) == [type |-> "text", text |-> t]
\* an array element that is a bare string
StringItem(t) == [type |-> "string", text |-> t]
\* an image_url item whose url is data:image/<format>;base64,<data>, and one
\* whose url the pattern of line 80 does not match
DataUrlItem(format, data) ==
    [type |-> "image_url", matches |-> TRUE, format |-> format, data |-> data]
OtherUrlItem == [type |-> "image_url", matches |-> FALSE, format |-> "", data |-> ""]

\* toolCall.function.arguments: a string JSON.parse accepts (with the value
\* it yields), a string it rejects, or an object
JsonArguments(v) == [kind |-> "json", value |-> v]
BadJsonArguments == [kind |-> "badjson", value |-> "{"]
ObjectArguments(v) == [kind |-> "object", value |-> v]
EmptyArgs == [k \in {} |-> ""]

ToolCall(id, name, arguments) == [id |-> id, name |-> name, arguments |-> arguments]

UserMessage(content) ==
    [role |-> "user", content |-> content, tool_calls |-> <<>>, tool_call_id |-> ""]
SystemMessage(content) ==
    [role |-> "system", content |-> content, tool_calls |-> <<>>, tool_call_id |-> ""]
AssistantMessage(content, toolCalls) ==
    [role |-> "assistant", content |-> content, tool_calls |-> toolCalls,
     tool_call_id |-> ""]
ToolMessage(id, content) ==
    [role |-> "tool", content |-> content, tool_calls |-> <<>>, tool_call_id |-> id]

\* part.functionCall / part.functionResponse / part.thoughtSignature present
HasFunctionCall(part) == "functionCall" \in DOMAIN part
HasFunctionResponse(part) == "functionResponse" \in DOMAIN part
HasThoughtSignature(part) == "thoughtSignature" \in DOMAIN part
HasText(part) == "text" \in DOMAIN part

\* extractImagesFromContent: {text, images}
RECURSIVE ExtractItems(_, _)
ExtractItems(items, result) ==
    IF items = <<>> THEN result
    ELSE LET item == Head(items)
             next ==
                 IF item.type = "text"
                 THEN [result EXCEPT !.text = @ \o item.text]
                 ELSE IF item.type = "image_url" /\ item.matches
                      THEN [result EXCEPT !.images =
                                Append(@, [inlineData |->
                                              [mimeType |-> <<"image/", item.format>>,
                                               data |-> item.data]])]
                      ELSE result
         IN  ExtractItems(Tail(items), next)

extractImagesFromContent(content) ==
    IF content.kind = "string" THEN [text |-> content.text, images |-> <<>>]
    ELSE IF content.kind = "array"
         THEN ExtractItems(content.items, [text |-> <<>>, images |-> <<>>])
         ELSE [text |-> <<>>, images |-> <<>>]

\* handleUserMessage
handleUserMessage(extracted, messages) ==
    Append(messages,
           [role |-> "user",
            parts |-> <<[text |-> extracted.text]>> \o extracted.images])

\* lines 113-119: the name of the first part of a model turn that is a function
\* call with this id; functionName is kept when the turn has none
FirstCallName(parts, id, functionName) ==
    LET hits == {j \in 1..Len(parts) :
                    HasFunctionCall(parts[j]) /\ parts[j].functionCall.id = id}
    IN  IF hits = {} THEN functionName
        ELSE parts[CHOOSE j \in hits : \A k \in hits : j <= k].functionCall.name

\* the loop of lines 110-122 run forward, from the oldest turn
RECURSIVE FindFunctionName_Oldest(_, _, _, _)
FindFunctionName_Oldest(messages, i, id, functionName) ==
    LET RECURSIVE Forward(_, _)
        Forward(k, name) ==
            IF k > Len(messages) THEN name
            ELSE IF messages[k].role = "model"
                 THEN LET found == FirstCallName(messages[k].parts, id, name)
                      IN  IF found # "" THEN found ELSE Forward(k + 1, found)
                 ELSE Forward(k + 1, name)
    IN  Forward(1, functionName)

\* lines 110-122: the backward loop over the turns built so far
RECURSIVE FindFunctionName(_, _, _, _)
FindFunctionName(messages, i, id, functionName) ==
    IF i < 1 THEN functionName
    ELSE IF messages[i].role = "model"
         THEN LET found == FirstCallName(messages[i].parts, id, functionName)
              IN  IF found # "" THEN found
                  ELSE FindFunctionName(messages, i - 1, id, found)
         ELSE FindFunctionName(messages, i - 1, id, functionName)

\* JSON.stringify of a content, which is a function of the content alone
JsonStringify(content) == [stringified |-> content]

\* lines 125-133: the output of a tool message.  Arrays are objects, so the
\* first branch takes them too.
ToolOutput(content) ==
    IF content.kind \in {"object", "array"}
    THEN IF content.text # <<>> THEN content.text ELSE JsonStringify(content)
    ELSE IF content.kind = "string" THEN content.text ELSE content

\* line 147 without the test for a function-response part
LastIsResponseTurn_AnyUserTurn(messages) ==
    /\ messages # <<>>
    /\ messages[Len(messages)].role = "user"

\* line 147: lastMessage?.role === "user" && lastMessage.parts.some(p => p.functionResponse)
LastIsResponseTurn(messages) ==
    /\ messages # <<>>
    /\ messages[Len(messages)].role = "user"
    /\ \E j \in 1..Len(messages[Len(messages)].parts) :
           HasFunctionResponse(messages[Len(messages)].parts[j])

\* handleToolCall
handleToolCall(message, messages) ==
    LET functionName ==
            FindFunctionName(messages, Len(messages), message.tool_call_id, "")
        functionResponse ==
            [functionResponse |->
                [id |-> message.tool_call_id,
                 name |-> functionName,
                 response |-> [output |-> ToolOutput(message.content)]]]
    IN  IF LastIsResponseTurn(messages)
        THEN [messages EXCEPT ![Len(messages)].parts = Append(@, functionResponse)]
        ELSE Append(messages, [role |-> "user", parts |-> <<functionResponse>>])

\* lines 734-743: the args of a function call
ParseArguments(arguments) ==
    IF arguments.kind \in {"json", "object"} THEN arguments.value ELSE EmptyArgs

\* lines 733-759: the function-call part of one tool call
FunctionCallPart(toolCall, idMap) ==
    LET thoughtSignature == getThoughtSignature(idMap, toolCall.id)
        functionCall == [id |-> toolCall.id,
                         name |-> toolCall.name,
                         args |-> ParseArguments(toolCall.arguments)]
    IN  IF thoughtSignature # Undefined
        THEN [functionCall |-> functionCall, thoughtSignature |-> thoughtSignature]
        ELSE [functionCall |-> functionCall]

\* the function-call parts in the reverse of the order of the tool calls
FunctionCallParts_Reversed(toolCalls, idMap) ==
    [j \in 1..Len(toolCalls) |->
        FunctionCallPart(toolCalls[Len(toolCalls) + 1 - j], idMap)]

FunctionCallParts(toolCalls, idMap) ==
    [j \in 1..Len(toolCalls) |-> FunctionCallPart(toolCalls[j], idMap)]

\* lines 719-729: the text of an assistant message
RECURSIVE JoinTextItems(_)
JoinTextItems(items) ==
    IF items = <<>> THEN <<>>
    ELSE (IF Head(items).type = "text" THEN Head(items).text ELSE <<>>)
             \o JoinTextItems(Tail(items))

ContentText(content) ==
    IF content.kind = "array" THEN JoinTextItems(content.items)
    ELSE IF content.kind = "string" THEN content.text
    ELSE <<>>

Gemini3 == <<"g", "e", "m", "i", "n", "i", "-", "3">>
Claude == <<"c", "l", "a", "u", "d", "e">>

\* lines 772-781 sending the normalised text in place of the text
TextPart_SendsNormalized(contentText, allowThoughtSignature, textMap) ==
    LET textThoughtSignature ==
            IF allowThoughtSignature
            THEN getTextThoughtSignature(textMap, contentText)
            ELSE UndefinedEntry
        text == normalizeTextForSignature(contentText)
    IN  IF allowThoughtSignature /\ textThoughtSignature # UndefinedEntry
        THEN [text |-> text, thoughtSignature |-> textThoughtSignature.signature]
        ELSE [text |-> text]

\* lines 772-781: the text part of an assistant message that has text
TextPart(contentText, allowThoughtSignature, textMap) ==
    LET textThoughtSignature ==
            IF allowThoughtSignature
            THEN getTextThoughtSignature(textMap, contentText)
            ELSE UndefinedEntry
        text == IF textThoughtSignature # UndefinedEntry
                THEN textThoughtSignature.text ELSE contentText
    IN  IF allowThoughtSignature /\ textThoughtSignature # UndefinedEntry
        THEN [text |-> text, thoughtSignature |-> textThoughtSignature.signature]
        ELSE [text |-> text]

\* handleAssistantMessage dropping a text for which no signature is cached
handleAssistantMessage_DropUnsigned(message, messages, model, idMap, textMap) ==
    LET hasToolCalls == Len(message.tool_calls) > 0
        allowThoughtSignature == Includes(model, Gemini3)
        contentText == ContentText(message.content)
        hasContent == Trim(contentText) # <<>>
        antigravityTools == FunctionCallParts(message.tool_calls, idMap)
        lastIsModel == messages # <<>> /\ messages[Len(messages)].role = "model"
        signed == /\ allowThoughtSignature
                  /\ getTextThoughtSignature(textMap, contentText) # UndefinedEntry
    IN  IF lastIsModel /\ hasToolCalls /\ ~hasContent
        THEN [messages EXCEPT ![Len(messages)].parts = @ \o antigravityTools]
        ELSE LET textParts ==
                     IF hasContent /\ signed
                     THEN <<TextPart(contentText, allowThoughtSignature, textMap)>>
                     ELSE <<>>
             IN  Append(messages,
                        [role |-> "model", parts |-> textParts \o antigravityTools])

\* handleAssistantMessage merging into the last model turn whenever the
\* message has tool calls (line 762 without !hasContent)
handleAssistantMessage_MergeWithText(message, messages, model, idMap, textMap) ==
    LET hasToolCalls == Len(message.tool_calls) > 0
        allowThoughtSignature == Includes(model, Gemini3)
        contentText == ContentText(message.content)
        hasContent == Trim(contentText) # <<>>
        antigravityTools == FunctionCallParts(message.tool_calls, idMap)
        lastIsModel == messages # <<>> /\ messages[Len(messages)].role = "model"
    IN  IF lastIsModel /\ hasToolCalls
        THEN [messages EXCEPT ![Len(messages)].parts = @ \o antigravityTools]
        ELSE LET textParts ==
                     IF hasContent
                     THEN <<TextPart(contentText, allowThoughtSignature, textMap)>>
                     ELSE <<>>
             IN  Append(messages,
                        [role |-> "model", parts |-> textParts \o antigravityTools])

\* handleAssistantMessage (the definition of line 713)
handleAssistantMessage(message, messages, model, idMap, textMap) ==
    LET hasToolCalls == Len(message.tool_calls) > 0
        allowThoughtSignature == Includes(model, Gemini3)
        contentText == ContentText(message.content)
        hasContent == Trim(contentText) # <<>>
        antigravityTools == FunctionCallParts(message.tool_calls, idMap)
        lastIsModel == messages # <<>> /\ messages[Len(messages)].role = "model"
    IN  IF lastIsModel /\ hasToolCalls /\ ~hasContent
        THEN [messages EXCEPT ![Len(messages)].parts = @ \o antigravityTools]
        ELSE LET textParts ==
                     IF hasContent
                     THEN <<TextPart(contentText, allowThoughtSignature, textMap)>>
                     ELSE <<>>
             IN  Append(messages,
                        [role |-> "model", parts |-> textParts \o antigravityTools])

\* lines 158-168: one iteration of the loop of openaiMessageToAntigravity
ConvertMessage(message, messages, model, idMap, textMap) ==
    IF message.role = "user"
    THEN handleUserMessage(extractImagesFromContent(message.content), messages)
    ELSE IF message.role = "assistant"
         THEN handleAssistantMessage(message, messages, model, idMap, textMap)
         ELSE IF message.role = "tool"
              THEN handleToolCall(message, messages)
              ELSE messages

\* openaiMessageToAntigravity: the whole loop
RECURSIVE ConvertFrom(_, _, _, _, _)
ConvertFrom(openai, messages, model, idMap, textMap) ==
    IF openai = <<>> THEN messages
    ELSE ConvertFrom(Tail(openai),
                     ConvertMessage(Head(openai), messages, model, idMap, textMap),
                     model, idMap, textMap)

openaiMessageToAntigravity(openai, model, idMap, textMap) ==
    ConvertFrom(openai, <<>>, model, idMap, textMap)

\* line 584: the messages that are not system messages
conversationMessages(openai) == SelectSeq(openai, LAMBDA m : m.role # "system")

\* lines 617-620: a part without its thoughtSignature
DeleteThoughtSignature(part) ==
    [f \in DOMAIN part \ {"thoughtSignature"} |-> part[f]]

\* lines 613-623 left out
StripThoughtSignatures_Skipped(contents, model) == contents

\* lines 613-623: for a claude model every part loses its thoughtSignature
StripThoughtSignatures(contents, model) ==
    IF Includes(model, Claude)
    THEN [i \in 1..Len(contents) |->
             [contents[i] EXCEPT !.parts =
                 [j \in 1..Len(contents[i].parts) |->
                     DeleteThoughtSignature(contents[i].parts[j])]]]
    ELSE contents

----------------------------------------------------------------------------
(* JavaScript values of the schemas.  An object keeps its keys in insertion
   order; Ref(path) stands for a second reference to the object found at
   that path from the root, so the identity of an object is its path. *)

JsUndefined == [t |-> "undefined"]
JsNull == [t |-> "null"]
Str(s) == [t |-> "string", s |-> s]
Num(n) == [t |-> "number", kind |-> "integer", n |-> n]
Frac(n) == [t |-> "number", kind |-> "fraction", n |-> n]
NaN == [t |-> "number", kind |-> "NaN", n |-> 0]
Bool(b) == [t |-> "boolean", b |-> b]
Obj(keys, vals) == [t |-> "object", keys |-> keys, vals |-> vals]
Arr(items) == [t |-> "array", items |-> items]
Ref(path) == [t |-> "ref", path |-> path]
EmptyObject == Obj(<<>>, <<>>)

\* typeof v === 'object'
TypeofObject(v) == v.t \in {"object", "array", "null"}

\* Boolean(v)
Truthy(v) ==
    CASE v.t \in {"undefined", "null"} -> FALSE
      [] v.t = "string" -> v.s # ""
      [] v.t = "number" -> ~(v.kind = "NaN" \/ (v.kind = "integer" /\ v.n = 0))
      [] v.t = "boolean" -> v.b
      [] OTHER -> TRUE

\* the strings of the inputs that trim() leaves empty
BlankStrings == {"", " ", "  "}

\* the strings of the inputs that toLowerCase() changes
LowerCase(s) ==
    CASE s = "INT" -> "int"
      [] s = "Str" -> "str"
      [] s = "Bool" -> "bool"
      [] s = "LIST" -> "list"
      [] OTHER -> s

\* String(v)
RECURSIVE ToStringJs(_)
ToStringJs(v) ==
    CASE v.t = "string" -> v.s
      [] v.t = "boolean" -> IF v.b THEN "true" ELSE "false"
      [] v.t = "number" ->
             IF v.kind = "NaN" THEN "NaN"
             ELSE IF v.kind = "integer" THEN ToString(v.n)
             ELSE ToString(v.n) \o ".5"
      [] v.t = "array" ->
             IF v.items = <<>> THEN ""
             ELSE IF Len(v.items) = 1 THEN ToStringJs(v.items[1])
             ELSE ToStringJs(v.items[1]) \o "," \o ToStringJs(Arr(Tail(v.items)))
      [] v.t = "object" -> "[object Object]"
      [] OTHER -> ""

\* obj.hasOwnProperty(key), obj[key], obj[key] = v
Has(obj, key) == obj.t = "object" /\ \E i \in 1..Len(obj.keys) : obj.keys[i] = key
IndexOf(obj, key) == CHOOSE i \in 1..Len(obj.keys) : obj.keys[i] = key
Get(obj, key) == IF Has(obj, key) THEN obj.vals[IndexOf(obj, key)] ELSE JsUndefined
SetKey(obj, key, v) ==
    IF Has(obj, key) THEN [obj EXCEPT !.vals[IndexOf(obj, key)] = v]
    ELSE [obj EXCEPT !.keys = Append(@, key), !.vals = Append(@, v)]

\* a value and the path it is found at
Loc(v, p) == [v |-> v, p |-> p]

RECURSIVE NodeAt(_, _)
NodeAt(root, path) ==
    IF path = <<>> THEN root
    ELSE NodeAt(IF root.t = "object" THEN root.vals[Head(path)]
                ELSE root.items[Head(path)],
                Tail(path))

\* the object a reference points to, with its own path
Deref(root, v, p) ==
    IF v.t = "ref" THEN Loc(NodeAt(root, v.path), v.path) ELSE Loc(v, p)

\* obj[key] and array[i] of a value found at a path
Prop(root, l, key) ==
    IF Has(l.v, key)
    THEN Deref(root, Get(l.v, key), l.p \o <<IndexOf(l.v, key)>>)
    ELSE Loc(JsUndefined, <<>>)
Item(root, l, i) == Deref(root, l.v.items[i], l.p \o <<i>>)

\* Object.entries(value): the keys of an array are its indices
EntryKeys(v) ==
    IF v.t = "object" THEN v.keys
    ELSE IF v.t = "array" THEN [i \in 1..Len(v.items) |-> ToString(i - 1)]
    ELSE <<>>
EntryValue(root, l, i) ==
    IF l.v.t = "object" THEN Deref(root, l.v.vals[i], l.p \o <<i>>)
    ELSE Item(root, l, i)

\* Set.add on a list that keeps the insertion order
AddTo(list, v) ==
    IF \E i \in 1..Len(list) : list[i] = v THEN list ELSE Append(list, v)
RECURSIVE AddAll(_, _)
AddAll(list, vs) ==
    IF vs = <<>> THEN list ELSE AddAll(AddTo(list, Head(vs)), Tail(vs))

\* Object.assign(target, source)
RECURSIVE Assign(_, _, _)
Assign(target, source, i) ==
    IF i > Len(source.keys) THEN target
    ELSE Assign(SetKey(target, source.keys[i], source.vals[i]), source, i + 1)

----------------------------------------------------------------------------
(* cleanJsonSchema *)

\* lines 266-279
SUPPORTED_KEYS ==
    {"type", "properties", "items", "required", "description", "enum",
     "nullable", "format", "minimum", "maximum", "minItems", "maxItems"}

\* line 282
VALID_TYPES == {"string", "number", "integer", "boolean", "array", "object"}

\* line 472
supportedFormats == {"date-time", "date", "time", "email", "uri", "uuid"}

\* the marker with the staging field left in it
CircularReference_Staged ==
    Obj(<<"type", "description", "_pendingRequired">>,
        <<Str("object"), Str("[Circular Reference]"), Arr(<<>>)>>)

\* lines 261 and 291
CircularReference ==
    Obj(<<"type", "description">>, <<Str("object"), Str("[Circular Reference]")>>)

\* lines 517-521
isValidEnumValue(value) ==
    /\ value.t \notin {"null", "undefined"}
    /\ ~(value.t = "string" /\ value.s \in BlankStrings)

\* lines 526-535
inferType(value) ==
    CASE value.t = "null" -> "string"
      [] value.t = "boolean" -> "boolean"
      [] value.t = "number" -> IF value.kind = "integer" THEN "integer" ELSE "number"
      [] value.t = "array" -> "array"
      [] value.t = "object" -> "object"
      [] OTHER -> "string"

\* lines 540-554, for a string
mapUnknownType(type) ==
    LET lower == LowerCase(type)
    IN  CASE lower = "int" -> "integer"
          [] lower \in {"float", "double"} -> "number"
          [] lower = "bool" -> "boolean"
          [] lower = "str" -> "string"
          [] lower = "list" -> "array"
          [] lower \in {"dict", "map"} -> "object"
          [] lower \in {"any", "null"} -> "string"
          [] OTHER -> "string"

\* what cleanObject returns, and the visited set it leaves
Res(out, visited) == [out |-> out, visited |-> visited]

\* lines 394-404
CleanConst(obj) ==
    LET typed == SetKey(EmptyObject, "type", Str(inferType(Get(obj, "const"))))
        listed ==
            IF isValidEnumValue(Get(obj, "const"))
            THEN SetKey(typed, "enum", Arr(<<Get(obj, "const")>>))
            ELSE typed
    IN  IF Truthy(Get(obj, "description"))
        THEN SetKey(listed, "description", Str(ToStringJs(Get(obj, "description"))))
        ELSE listed

\* lines 407-426: cleaned.type, undefined when obj.type is falsy
ResolveType(obj) ==
    LET type == Get(obj, "type")
        validTypes ==
            SelectSeq(type.items, LAMBDA x : x.t = "string" /\ x.s \in VALID_TYPES)
        nonNull == SelectSeq(validTypes, LAMBDA x : x.s # "null")
    IN  IF ~Truthy(type) THEN [type |-> JsUndefined, nullable |-> FALSE]
        ELSE IF type.t = "array"
        THEN IF validTypes = <<>>
             THEN [type |-> Str("string"), nullable |-> FALSE]
             ELSE IF \E i \in 1..Len(validTypes) : validTypes[i].s = "null"
             THEN [type |-> IF nonNull = <<>> THEN Str("string") ELSE nonNull[1],
                   nullable |-> TRUE]
             ELSE [type |-> validTypes[1], nullable |-> FALSE]
        ELSE IF type.t = "string" /\ type.s \in VALID_TYPES
        THEN [type |-> type, nullable |-> FALSE]
        ELSE [type |-> Str(mapUnknownType(type.s)), nullable |-> FALSE]

\* lines 317 and 319
unionKeys == <<"anyOf", "oneOf", "allOf">>
UnionKey(obj) ==
    LET found ==
            SelectSeq(unionKeys,
                      LAMBDA k : Truthy(Get(obj, k)) /\ Get(obj, k).t = "array")
    IN  IF found = <<>> THEN "" ELSE found[1]

\* lines 480-508: the end of cleanObject, from the cleaned fields
Complete(cleaned, pendingRequired, hasPending) ==
    LET validRequired ==
            SelectSeq(pendingRequired,
                      LAMBDA r : Has(Get(cleaned, "properties"), r.s))
        required ==
            IF hasPending /\ Truthy(Get(cleaned, "properties")) /\ validRequired # <<>>
            THEN SetKey(cleaned, "required", Arr(validRequired))
            ELSE cleaned
        typed ==
            IF Truthy(Get(required, "type")) THEN required
            ELSE IF Truthy(Get(required, "properties"))
            THEN SetKey(required, "type", Str("object"))
            ELSE IF Truthy(Get(required, "items"))
            THEN SetKey(required, "type", Str("array"))
            ELSE IF Truthy(Get(required, "enum"))
            THEN SetKey(required, "type",
                        Str(inferType(IF Get(required, "enum").items = <<>>
                                      THEN JsUndefined
                                      ELSE Get(required, "enum").items[1])))
            ELSE SetKey(required, "type", Str("string"))
        withItems ==
            IF Get(typed, "type") = Str("array") /\ ~Truthy(Get(typed, "items"))
            THEN SetKey(typed, "items", Obj(<<"type">>, <<Str("string")>>))
            ELSE typed
    IN  IF Get(withItems, "type") = Str("object")
           /\ ~Truthy(Get(withItems, "properties"))
        THEN SetKey(withItems, "properties", EmptyObject)
        ELSE withItems

\* lines 325-329: the accumulators of the union branch
EmptyMerge ==
    [properties |-> EmptyObject, required |-> <<>>, enum |-> <<>>,
     types |-> <<>>, hasProps |-> FALSE]

\* lines 335-356: one cleaned option is merged
MergeOption(m, cleanedOption, unionKey) ==
    LET type == Get(cleanedOption, "type")
        properties == Get(cleanedOption, "properties")
        required == Get(cleanedOption, "required")
        enum == Get(cleanedOption, "enum")
    IN  [types |-> IF Truthy(type) THEN AddTo(m.types, type) ELSE m.types,
         properties |->
             IF properties.t = "object" THEN Assign(m.properties, properties, 1)
             ELSE m.properties,
         hasProps |-> m.hasProps \/ properties.t = "object",
         required |->
             IF unionKey = "allOf" /\ required.t = "array"
             THEN AddAll(m.required, required.items)
             ELSE m.required,
         enum |->
             IF enum.t = "array"
             THEN AddAll(m.enum, SelectSeq(enum.items, isValidEnumValue))
             ELSE m.enum]

\* lines 360-390: the node built from the accumulators, when one is built
MergedNode(obj, m) ==
    LET validRequired ==
            SelectSeq(m.required, LAMBDA r : Has(m.properties, r.s))
        object ==
            SetKey(SetKey(EmptyObject, "type", Str("object")),
                   "properties", m.properties)
        cleaned ==
            IF m.hasProps
            THEN IF validRequired # <<>>
                 THEN SetKey(object, "required", Arr(validRequired))
                 ELSE object
            ELSE IF m.enum # <<>>
            THEN SetKey(SetKey(EmptyObject, "type", Str("string")),
                        "enum", Arr(m.enum))
            ELSE IF Len(m.types) = 1
            THEN SetKey(EmptyObject, "type", m.types[1])
            ELSE IF \E i \in 1..Len(m.types) : m.types[i] = Str("string")
            THEN SetKey(EmptyObject, "type", Str("string"))
            ELSE IF \E i \in 1..Len(m.types) : m.types[i] = Str("object")
            THEN SetKey(EmptyObject, "type", Str("object"))
            ELSE SetKey(EmptyObject, "type", m.types[1])
    IN  IF Truthy(Get(obj, "description"))
        THEN SetKey(cleaned, "description", Str(ToStringJs(Get(obj, "description"))))
        ELSE cleaned

\* line 319
Options(root, l, unionKey) ==
    LET array == Prop(root, l, unionKey)
        all == [i \in 1..Len(array.v.items) |-> Item(root, array, i)]
    IN  SelectSeq(all, LAMBDA o : Truthy(o.v) /\ TypeofObject(o.v))

\* lines 432-476: what one entry of obj adds to the cleaned fields, the
\* properties and the items apart
PlainEntry(state, key, value) ==
    IF key = "enum" /\ value.t = "array"
    THEN IF SelectSeq(value.items, isValidEnumValue) # <<>>
         THEN [state EXCEPT !.cleaned =
                   SetKey(@, "enum", Arr(SelectSeq(value.items, isValidEnumValue)))]
         ELSE state
    ELSE IF key = "required" /\ value.t = "array"
    THEN [state EXCEPT
              !.pending = SelectSeq(value.items,
                              LAMBDA r : r.t = "string" /\ r.s \notin BlankStrings),
              !.hasPending = TRUE]
    ELSE IF key = "description"
    THEN IF Truthy(value)
         THEN [state EXCEPT !.cleaned = SetKey(@, "description", Str(ToStringJs(value)))]
         ELSE state
    ELSE IF key = "nullable"
    THEN [state EXCEPT !.cleaned = SetKey(@, "nullable", Bool(Truthy(value)))]
    ELSE IF key \in {"minimum", "maximum", "minItems", "maxItems"}
    THEN IF value.t = "number" /\ value.kind # "NaN"
         THEN [state EXCEPT !.cleaned = SetKey(@, key, value)]
         ELSE state
    ELSE IF key = "format" /\ value.t = "string"
    THEN IF value.s \in supportedFormats
         THEN [state EXCEPT !.cleaned = SetKey(@, "format", value)]
         ELSE state
    ELSE state

RECURSIVE cleanObject(_, _, _)
RECURSIVE CleanArray(_, _, _, _, _)
RECURSIVE MergeOptions(_, _, _, _, _, _)
RECURSIVE CleanUnion(_, _, _, _)
RECURSIVE CleanProps(_, _, _, _, _)
RECURSIVE CleanEntries(_, _, _, _, _)
RECURSIVE CleanFields(_, _, _)

\* lines 298-302: the items of an array from the i-th on
CleanArray(root, l, i, acc, visited) ==
    IF i > Len(l.v.items) THEN Res(Arr(acc), visited)
    ELSE LET item == Item(root, l, i)
             r == IF item.v.t \in {"object", "array"}
                  THEN cleanObject(root, item, visited)
                  ELSE Res(item.v, visited)
         IN  CleanArray(root, l, i + 1,
                        IF r.out.t \in {"null", "undefined"} THEN acc
                        ELSE Append(acc, r.out),
                        r.visited)

\* lines 331-357: the options from the i-th on
MergeOptions(root, options, i, m, unionKey, visited) ==
    IF i > Len(options) THEN [m |-> m, visited |-> visited]
    ELSE LET r == cleanObject(root, options[i], visited)
         IN  MergeOptions(root, options, i + 1,
                          IF Truthy(r.out) THEN MergeOption(m, r.out, unionKey)
                          ELSE m,
                          unionKey, r.visited)

\* lines 318-391
CleanUnion(root, l, unionKey, visited) ==
    LET options == Options(root, l, unionKey)
        merged == MergeOptions(root, options, 1, EmptyMerge, unionKey, visited)
        description == Get(l.v, "description")
    IN  IF options = <<>>
        THEN Res(Obj(<<"type", "description">>,
                     <<Str("string"),
                       IF Truthy(description) THEN description ELSE Str("")>>),
                 visited)
        ELSE IF merged.m.hasProps \/ merged.m.enum # <<>> \/ merged.m.types # <<>>
        THEN Res(MergedNode(l.v, merged.m), merged.visited)
        ELSE cleanObject(root, options[1], merged.visited)

\* lines 433-444: the entries of properties from the j-th on
CleanProps(root, l, j, cleanProps, visited) ==
    IF j > Len(EntryKeys(l.v)) THEN Res(cleanProps, visited)
    ELSE IF EntryKeys(l.v)[j] = ""
    THEN CleanProps(root, l, j + 1, cleanProps, visited)
    ELSE LET r == cleanObject(root, EntryValue(root, l, j), visited)
         IN  CleanProps(root, l, j + 1,
                        IF Truthy(r.out)
                        THEN SetKey(cleanProps, EntryKeys(l.v)[j], r.out)
                        ELSE cleanProps,
                        r.visited)

\* lines 429-477: the entries of obj from the i-th on
CleanEntries(root, l, i, state, visited) ==
    IF i > Len(l.v.keys) THEN [state |-> state, visited |-> visited]
    ELSE LET key == l.v.keys[i]
             value == EntryValue(root, l, i)
         IN  IF key \notin SUPPORTED_KEYS \/ key = "type"
             THEN CleanEntries(root, l, i + 1, state, visited)
             ELSE IF key = "properties" /\ value.v.t \in {"object", "array"}
             THEN LET r == CleanProps(root, value, 1, EmptyObject, visited)
                  IN  CleanEntries(root, l, i + 1,
                          IF r.out.keys # <<>>
                          THEN [state EXCEPT !.cleaned = SetKey(@, "properties", r.out)]
                          ELSE state,
                          r.visited)
             ELSE IF key = "items" /\ TypeofObject(value.v)
             THEN LET r == cleanObject(root, value, visited)
                  IN  CleanEntries(root, l, i + 1,
                          IF Truthy(r.out)
                          THEN [state EXCEPT !.cleaned = SetKey(@, "items", r.out)]
                          ELSE state,
                          r.visited)
             ELSE CleanEntries(root, l, i + 1, PlainEntry(state, key, value.v), visited)

\* lines 407-508
CleanFields(root, l, visited) ==
    LET resolved == ResolveType(l.v)
        typed ==
            IF resolved.type = JsUndefined THEN EmptyObject
            ELSE SetKey(EmptyObject, "type", resolved.type)
        start ==
            IF resolved.nullable THEN SetKey(typed, "nullable", Bool(TRUE)) ELSE typed
        entries ==
            CleanEntries(root, l, 1,
                         [cleaned |-> start, pending |-> <<>>, hasPending |-> FALSE],
                         visited)
    IN  Res(Complete(entries.state.cleaned, entries.state.pending,
                     entries.state.hasPending),
            entries.visited)

\* lines 284-509
cleanObject(root, l, visited) ==
    IF l.v.t \in {"null", "undefined"} THEN Res(JsNull, visited)
    ELSE IF TypeofObject(l.v) /\ l.p \in visited THEN Res(CircularReference, visited)
    ELSE LET seen == IF l.v.t = "object" THEN visited \cup {l.p} ELSE visited
         IN  IF l.v.t = "array" THEN CleanArray(root, l, 1, <<>>, seen)
             ELSE IF l.v.t # "object" THEN Res(l.v, seen)
             ELSE IF Truthy(Get(l.v, "$ref"))
             THEN Res(Obj(<<"type", "description">>,
                          <<Str("object"),
                            Str("Reference: " \o ToStringJs(Get(l.v, "$ref")))>>),
                      seen)
             ELSE IF UnionKey(l.v) # "" THEN CleanUnion(root, l, UnionKey(l.v), seen)
             ELSE IF Get(l.v, "const") # JsUndefined THEN Res(CleanConst(l.v), seen)
             ELSE CleanFields(root, l, seen)

\* the root is cleaned without being marked as visited first
cleanJsonSchema_RootNotVisited(schema) ==
    IF ~Truthy(schema) \/ ~TypeofObject(schema) THEN schema
    ELSE cleanObject(schema, Loc(schema, <<>>), {}).out

\* lines 253-512, called with one argument: visited is a new set, the schema
\* is added to it (line 263) and cleanObject is called on the schema (line 511)
cleanJsonSchema(schema) ==
    IF ~Truthy(schema) \/ ~TypeofObject(schema) THEN schema
    ELSE cleanObject(schema, Loc(schema, <<>>), {<<>>}).out

\* a tool of the request: "" stands for a name or a description that is
\* missing or empty, JsUndefined for missing parameters
Tool(name, description, params) ==
    [function |-> [name |-> name, description |-> description, parameters |-> params]]

\* lines 196-221; the copy of line 201 is a new object with the keys of the
\* parameters, it is the root cleanJsonSchema is called on
convertOpenAIToolsToAntigravity(tools) ==
    [i \in 1..Len(tools) |->
        LET function ==
                IF "function" \in DOMAIN tools[i] THEN tools[i].function
                ELSE [name |-> "", description |-> "", parameters |-> JsUndefined]
            params ==
                IF Truthy(function.parameters) THEN function.parameters
                ELSE EmptyObject
        IN  [functionDeclarations |->
                <<[name |-> IF function.name = "" THEN "unknown_function"
                            ELSE function.name,
                   description |-> function.description,
                   parameters |-> cleanJsonSchema(params)]>>]]

\* the sanitizer run
NoSchema == JsUndefined
SchemaIdle ==
    /\ schemaPc = "start"
    /\ schemaIn = NoSchema
    /\ schemaOnce = NoSchema
    /\ schemaTwice = NoSchema

\* cleanJsonSchema is called on the schema
SanitizeOnce ==
    /\ schemaPc = "start"
    /\ schemaPc' = "once"
    /\ schemaOnce' = cleanJsonSchema(schemaIn)
    /\ UNCHANGED <<schemaIn, schemaTwice, cacheVars, normVars, requestVars>>

\* cleanJsonSchema is called on what it returned
SanitizeTwice ==
    /\ schemaPc = "once"
    /\ schemaPc' = "twice"
    /\ schemaTwice' = cleanJsonSchema(schemaOnce)
    /\ UNCHANGED <<schemaIn, schemaOnce, cacheVars, normVars, requestVars>>

----------------------------------------------------------------------------
(* generateGenerationConfig and the decisions of generateRequestBody.
   A number of the request (top_p, temperature, ...) is modelled by its
   decimal text; the defaults of the configuration are opaque values. *)

Null == "null"

\* a || b on the decimal texts of numbers
Coalesce_Falsy(a, b) == IF a \in {Undefined, Null, "0"} THEN b ELSE a

\* a ?? b
Coalesce(a, b) == IF a \in {Undefined, Null} THEN b ELSE a

\* parameters.name, undefined when the property is missing
Parameter(params, name) ==
    IF name \in DOMAIN params THEN params[name] ELSE Undefined

NoParameters == [k \in {} |-> ""]

ThinkingBudget == 1024
CandidateCount == 1

\* the list without its last token
StopSequences_Four ==
    <<"<|user|>", "<|bot|>", "<|context_request|>", "<|endoftext|>">>

\* lines 179-185
StopSequences ==
    <<"<|user|>", "<|bot|>", "<|context_request|>", "<|endoftext|>",
      "<|end_of_turn|>">>

\* lines 172-195
generateGenerationConfig(params, enableThinking, actualModelName) ==
    LET generationConfig ==
            [topP |-> Coalesce(Parameter(params, "top_p"), config.defaults.top_p),
             topK |-> Coalesce(Parameter(params, "top_k"), config.defaults.top_k),
             temperature |->
                 Coalesce(Parameter(params, "temperature"),
                          config.defaults.temperature),
             candidateCount |-> CandidateCount,
             maxOutputTokens |->
                 Coalesce(Parameter(params, "max_tokens"),
                          config.defaults.max_tokens),
             stopSequences |-> StopSequences,
             thinkingConfig |->
                 [includeThoughts |-> enableThinking,
                  thinkingBudget |-> IF enableThinking THEN ThinkingBudget ELSE 0]]
    IN  IF enableThinking /\ Includes(actualModelName, Claude)
        THEN [k \in DOMAIN generationConfig \ {"topP"} |-> generationConfig[k]]
        ELSE generationConfig

DoubleNewline == <<"\n", "\n">>

\* Array.prototype.join on texts
RECURSIVE Join(_, _)
Join(texts, separator) ==
    IF texts = <<>> THEN <<>>
    ELSE IF Len(texts) = 1 THEN Head(texts)
    ELSE Head(texts) \o separator \o Join(Tail(texts), separator)

\* filter(Boolean) on texts
NonEmpty(texts) == SelectSeq(texts, LAMBDA t : t # <<>>)

\* lines 567-573: the text of one system message
RECURSIVE JoinItemTexts(_)
JoinItemTexts(items) ==
    IF items = <<>> THEN <<>>
    ELSE (IF "text" \in DOMAIN Head(items) THEN Head(items).text ELSE <<>>)
             \o JoinItemTexts(Tail(items))

SystemText(message) ==
    IF message.content.kind = "string" THEN message.content.text
    ELSE IF message.content.kind = "array" THEN JoinItemTexts(message.content.items)
    ELSE <<>>

\* only the first system message is taken
systemContent_FirstOnly(openai) ==
    LET systems == SelectSeq(openai, LAMBDA m : m.role = "system")
    IN  IF systems = <<>> THEN <<>> ELSE SystemText(systems[1])

\* lines 564-575
systemContent(openai) ==
    LET systems == SelectSeq(openai, LAMBDA m : m.role = "system")
        texts == [i \in 1..Len(systems) |-> SystemText(systems[i])]
    IN  Join(NonEmpty(texts), DoubleNewline)

\* lines 578-580
finalSystemInstruction(openai) ==
    Join(NonEmpty(<<config.systemInstruction, systemContent(openai)>>),
         DoubleNewline)

FallbackInstruction == <<"Y", "o", "u", " ", "a", "r", "e", " ", "a", " ", "h", "e", "l", "p", "f", "u", "l", " ", "a", "s", "s", "i", "s", "t", "a", "n", "t", ".">>

\* lines 629-632
SystemInstruction(openai) ==
    [role |-> "user",
     parts |-> <<[text |-> IF finalSystemInstruction(openai) = <<>>
                           THEN FallbackInstruction
                           ELSE finalSystemInstruction(openai)]>>]

\* lines 587-591
hasAssistantToolCalls(conversation) ==
    \E i \in 1..Len(conversation) :
        /\ conversation[i].role = "assistant"
        /\ conversation[i].tool_calls # <<>>

M_Gemini25Pro == <<"g", "e", "m", "i", "n", "i", "-", "2", ".", "5", "-", "p", "r", "o">>
ThinkingSuffix == <<"-", "t", "h", "i", "n", "k", "i", "n", "g">>
Gemini3ProPrefix == <<"g", "e", "m", "i", "n", "i", "-", "3", "-", "p", "r", "o", "-">>
M_Rev19 == <<"r", "e", "v", "1", "9", "-", "u", "i", "c", "3", "-", "1", "p">>
M_GptOss == <<"g", "p", "t", "-", "o", "s", "s", "-", "1", "2", "0", "b", "-", "m", "e", "d", "i", "u", "m">>

\* lines 599-604 and 672-677
baseEnableThinking(model) ==
    \/ EndsWith(model, ThinkingSuffix)
    \/ model = M_Gemini25Pro
    \/ StartsWith(model, Gemini3ProPrefix)
    \/ model = M_Rev19
    \/ model = M_GptOss

\* the tool calls of the history are not looked at
enableThinking_IgnoresToolCalls(openai, model) == baseEnableThinking(model)

\* lines 606-608
enableThinking(openai, model) ==
    /\ baseEnableThinking(model)
    /\ ~(/\ Includes(model, Claude)
         /\ hasAssistantToolCalls(conversationMessages(openai)))

\* generateRequestId of idGenerator.js: an opaque identifier, a new one at
\* each call
generateRequestId(issued) == [requestId |-> issued + 1]
----------------------------------------------------------------------------
(* generateRequestBody, one action per stage *)

NoModel == <<>>
NoToken == [projectId |-> "", sessionId |-> ""]
NoGeminiRequest == [k \in {} |-> ""]
NoBody ==
    [project |-> "", requestId |-> [requestId |-> 0],
     request |-> [contents |-> <<>>], model |-> NoModel, userAgent |-> ""]

RequestIdle ==
    /\ pc = "idle"
    /\ modelName = NoModel
    /\ openaiMessages = <<>>
    /\ antigravityMessages = <<>>
    /\ requestBody = NoBody
    /\ parameters = NoParameters
    /\ token = NoToken
    /\ requestIds = 0
    /\ openaiTools = <<>>
    /\ geminiRequest = NoGeminiRequest

\* generateRequestBody is called for a model, with parameters, tools and a token
StartRequest(model, params, tools, tok) ==
    /\ pc = "idle"
    /\ pc' = "folding"
    /\ modelName' = model
    /\ parameters' = params
    /\ token' = tok
    /\ openaiTools' = tools
    /\ UNCHANGED <<openaiMessages, antigravityMessages, requestBody,
                   config, requestIds, geminiRequest,
                   cacheVars, normVars, schemaVars>>

\* the next message of the request is read; unless it is a system message
\* (line 584) the loop of openaiMessageToAntigravity converts it
ReadMessage(message) ==
    /\ pc = "folding"
    /\ openaiMessages' = Append(openaiMessages, message)
    /\ antigravityMessages' =
           IF message.role = "system" THEN antigravityMessages
           ELSE ConvertMessage(message, antigravityMessages, modelName,
                               thoughtSignatureMap, textThoughtSignatureMap)
    /\ UNCHANGED <<pc, modelName, requestBody, config, parameters, token,
                   requestIds, openaiTools, geminiRequest,
                   cacheVars, normVars, schemaVars>>

\* lines 613-646: the signatures are stripped for claude and the body is returned
FinishRequest ==
    /\ pc = "folding"
    /\ pc' = "done"
    /\ requestIds' = requestIds + 1
    /\ requestBody' =
           [project |-> token.projectId,
            requestId |-> generateRequestId(requestIds),
            request |->
                [contents |-> StripThoughtSignatures(antigravityMessages, modelName),
                 systemInstruction |-> SystemInstruction(openaiMessages),
                 tools |-> convertOpenAIToolsToAntigravity(openaiTools),
                 toolConfig |-> [functionCallingConfig |-> [mode |-> "VALIDATED"]],
                 generationConfig |->
                     generateGenerationConfig(
                         parameters, enableThinking(openaiMessages, modelName),
                         modelName),
                 sessionId |-> token.sessionId],
            model |-> modelName,
            userAgent |-> "antigravity"]
    /\ UNCHANGED <<modelName, openaiMessages, antigravityMessages,
                   config, parameters, token, openaiTools, geminiRequest,
                   cacheVars, normVars, schemaVars>>

\* a value of the native request with what typeof and Array.isArray say of it
NativeArray(v) == [kind |-> "array", value |-> v]
NativeObject(v) == [kind |-> "object", value |-> v]
NativeString(v) == [kind |-> "string", value |-> v]
NativeNull == [kind |-> "null", value |-> <<>>]

\* geminiRequest?.field is an array, is a truthy object, is truthy
FieldIsArray(request, name) ==
    name \in DOMAIN request /\ request[name].kind = "array"
FieldIsObject(request, name) ==
    name \in DOMAIN request /\ request[name].kind \in {"array", "object"}
FieldIsTruthy(request, name) ==
    /\ name \in DOMAIN request
    /\ request[name].kind # "null"
    /\ request[name] # NativeString("")

\* lines 672-678
enableThinkingFromGemini(model) ==
    baseEnableThinking(model) /\ ~Includes(model, Claude)

\* the default generation config is used whatever the request holds
generateRequestBodyFromGemini_DefaultConfig(request, model, tok, issued) ==
    [project |-> tok.projectId,
     requestId |-> generateRequestId(issued),
     request |->
         [contents |->
              IF FieldIsArray(request, "contents") THEN request.contents
              ELSE NativeArray(<<>>),
          systemInstruction |->
              IF FieldIsObject(request, "systemInstruction")
              THEN request.systemInstruction
              ELSE NativeObject(
                       [role |-> "user",
                        parts |-> <<[text |-> config.systemInstruction]>>]),
          generationConfig |->
              NativeObject(
                  generateGenerationConfig(
                      NoParameters, enableThinkingFromGemini(model), model)),
          sessionId |-> tok.sessionId]
         @@ [k \in {f \in {"tools"} : FieldIsArray(request, f)}
                 \cup (DOMAIN request \cap {"toolConfig", "safetySettings"}) |->
                request[k]],
     model |-> model,
     userAgent |-> "antigravity"]

\* lines 668-709; a field that is undefined is left out of the record
generateRequestBodyFromGemini(request, model, tok, issued) ==
    [project |-> tok.projectId,
     requestId |-> generateRequestId(issued),
     request |->
         [contents |->
              IF FieldIsArray(request, "contents") THEN request.contents
              ELSE NativeArray(<<>>),
          systemInstruction |->
              IF FieldIsObject(request, "systemInstruction")
              THEN request.systemInstruction
              ELSE NativeObject(
                       [role |-> "user",
                        parts |-> <<[text |-> config.systemInstruction]>>]),
          generationConfig |->
              IF FieldIsTruthy(request, "generationConfig")
              THEN request.generationConfig
              ELSE NativeObject(
                       generateGenerationConfig(
                           NoParameters, enableThinkingFromGemini(model), model)),
          sessionId |-> tok.sessionId]
         @@ [k \in {f \in {"tools"} : FieldIsArray(request, f)}
                 \cup (DOMAIN request \cap {"toolConfig", "safetySettings"}) |->
                request[k]],
     model |-> model,
     userAgent |-> "antigravity"]

\* generateRequestBodyFromGemini is called
GenerateFromGemini(request, model, tok) ==
    /\ pc = "idle"
    /\ pc' = "done"
    /\ geminiRequest' = request
    /\ modelName' = model
    /\ token' = tok
    /\ requestIds' = requestIds + 1
    /\ requestBody' = generateRequestBodyFromGemini(request, model, tok, requestIds)
    /\ UNCHANGED <<openaiMessages, antigravityMessages, config, parameters,
                   openaiTools, cacheVars, normVars, schemaVars>>

\* Inputs of the request runs
M_Gemini3Pro == <<"g", "e", "m", "i", "n", "i", "-", "3", "-", "p", "r", "o", "-", "h", "i", "g", "h">>
M_ClaudeThinking == <<"c", "l", "a", "u", "d", "e", "-", "s", "o", "n", "n", "e", "t", "-", "4", "-", "5", "-", "t", "h", "i", "n", "k", "i", "n", "g">>
\* a name that holds both "claude" and "gemini-3"
M_ClaudeGemini3 == <<"c", "l", "a", "u", "d", "e", "-", "g", "e", "m", "i", "n", "i", "-", "3">>
ModelNames == {M_Gemini3Pro, M_ClaudeThinking, M_Gemini25Pro}
SigModelNames == ModelNames \cup {M_ClaudeGemini3}

T_Hi == <<"H", "i">>
Args == JsonArguments([city |-> "x"])
CallA == ToolCall("call_1", "f", Args)
CallB == ToolCall("call_2", "g", Args)
\* the id of CallA under another name, and under no name
CallD == ToolCall("call_1", "g", Args)
CallE == ToolCall("call_1", "", Args)

FoldToolCalls == { <<>>, <<CallA>>, <<CallA, CallB>>, <<CallD>>, <<CallE>> }
FoldContents == { StringContent(<<>>), StringContent(<<" ">>), StringContent(T_H) }
ToolResult == StringContent(<<"o", "k">>)

FoldMessages ==
    { UserMessage(StringContent(T_Hi)),
      UserMessage(ArrayContent(<<TextItem(T_Hi), DataUrlItem("png", "AAAA"),
                                 OtherUrlItem>>)),
      SystemMessage(StringContent(T_Hi)) }
    \cup { AssistantMessage(c, tc) : c \in FoldContents, tc \in FoldToolCalls }
    \cup { ToolMessage(id, ToolResult) : id \in {"call_1", "call_2"} }

\* tool results of every shape: a string, an object with and without a text
\* field, arrays whose first text-like element is a text item or a bare
\* string, an array without one, null and a number
T_Ok == <<"o", "k">>
T_No == <<"n", "o">>
ToolContents ==
    { StringContent(T_Ok),
      ObjectContent(T_Ok),
      ObjectContent(<<>>),
      ArrayContent(<<TextItem(T_Ok)>>),
      ArrayContent(<<OtherUrlItem, StringItem(T_No), TextItem(T_Ok)>>),
      ArrayContent(<<OtherUrlItem>>),
      NullContent,
      NumberContent }
ToolRunMessages ==
    { UserMessage(StringContent(T_Hi)),
      AssistantMessage(StringContent(<<>>), <<CallA>>) }
    \cup { ToolMessage("call_1", c) : c \in ToolContents }

SigToolCalls == { <<>>, <<CallA>> }
SigContents ==
    { StringContent(T_H), StringContent(T_Hsp), StringContent(T_HcrlfH),
      ArrayContent(<<TextItem(T_H), TextItem(<<" ">>)>>) }

SigMessages ==
    { UserMessage(StringContent(T_Hi)) }
    \cup { AssistantMessage(c, tc) : c \in SigContents, tc \in SigToolCalls }
    \cup { ToolMessage("call_1", ToolResult) }

SigTexts == { T_Hsp, T_thinkH }

\* Inputs of the assembly run
M_ClaudePlain == <<"c", "l", "a", "u", "d", "e", "-", "s", "o", "n", "n", "e", "t", "-", "4", "-", "5">>
M_Flash == <<"g", "e", "m", "i", "n", "i", "-", "2", ".", "5", "-", "f", "l", "a", "s", "h">>
M_Gemini3ProBare == <<"g", "e", "m", "i", "n", "i", "-", "3", "-", "p", "r", "o">>
AsmModelNames ==
    {M_Gemini3Pro, M_ClaudeThinking, M_Gemini25Pro, M_ClaudePlain, M_Flash,
     M_Gemini3ProBare, M_Rev19, M_GptOss}

T_Default == <<"D", "e", "f", "a", "u", "l", "t", ".">>
T_BeConcise == <<"B", "e", " ", "c", "o", "n", "c", "i", "s", "e", ".">>
Defaults ==
    [top_p |-> "0.85", top_k |-> "50", temperature |-> "1", max_tokens |-> "8096"]
Config(instruction) == [systemInstruction |-> instruction, defaults |-> Defaults]
Configs == {Config(T_Default), Config(<<>>)}

TokenA == [projectId |-> "project-a", sessionId |-> "session-a"]
TokenB == [projectId |-> "project-b", sessionId |-> "session-b"]

AsmParameters ==
    {NoParameters,
     [top_p |-> "0.5", top_k |-> "40", temperature |-> "0.2", max_tokens |-> "256"],
     [top_p |-> "0", temperature |-> "0"],
     [top_p |-> Null, top_k |-> "0", max_tokens |-> Null]}

\* Inputs of the sanitizer run
S_String == Obj(<<"type">>, <<Str("string")>>)
S_Number == Obj(<<"type">>, <<Str("number")>>)
S_Boolean == Obj(<<"type">>, <<Str("boolean")>>)
S_StringOrNull == Obj(<<"type">>, <<Arr(<<Str("string"), Str("null")>>)>>)
S_NullOrInteger == Obj(<<"type">>, <<Arr(<<Str("null"), Str("integer")>>)>>)
S_OnlyNull == Obj(<<"type">>, <<Arr(<<Str("null")>>)>>)
S_UnknownTypes == Obj(<<"type">>, <<Arr(<<Str("foo"), Str("bar")>>)>>)
S_Int == Obj(<<"type">>, <<Str("INT")>>)
S_Ref == Obj(<<"$ref">>, <<Str("#/defs/x")>>)
S_Enum ==
    Obj(<<"enum", "title">>,
        <<Arr(<<Str("a"), Str(""), Str(" "), JsNull, Num(1)>>), Str("t")>>)
S_Const == Obj(<<"const", "description">>, <<Str("c"), Str("d")>>)
S_Empty == EmptyObject
S_Object == Obj(<<"type">>, <<Str("object")>>)
S_Array == Obj(<<"type">>, <<Str("array")>>)
S_Required ==
    Obj(<<"required", "properties", "additionalProperties">>,
        <<Arr(<<Str("a"), Str("b"), Str(" ")>>),
          Obj(<<"a", "">>, <<S_String, S_Number>>),
          Bool(FALSE)>>)
S_Fields ==
    Obj(<<"type", "description", "nullable", "format", "minimum", "maxItems">>,
        <<Str("string"), Num(5), Num(1), Str("email"), NaN, Num(3)>>)
S_StringOrNumber == Obj(<<"anyOf">>, <<Arr(<<S_String, S_Number>>)>>)

\* an object schema with properties and a required list
S_TypedRequired ==
    Obj(<<"type", "properties", "required">>,
        <<Str("object"),
          Obj(<<"a", "b">>, <<S_String, S_Number>>),
          Arr(<<Str("a"), Str("c")>>)>>)

\* a property whose value is its own container
S_Cyclic ==
    Obj(<<"type", "properties">>,
        <<Str("object"), Obj(<<"self">>, <<Ref(<<>>)>>)>>)
\* an array schema whose items are the schema
S_CyclicItems == Obj(<<"type", "items">>, <<Str("array"), Ref(<<>>)>>)
\* two properties that hold one object
S_Shared ==
    Obj(<<"properties">>, <<Obj(<<"a", "b">>, <<S_String, Ref(<<1, 1>>)>>)>>)

Leaves ==
    {S_String, S_Number, S_Boolean, S_StringOrNull, S_NullOrInteger, S_OnlyNull,
     S_UnknownTypes, S_Int, S_Ref, S_Enum, S_Const, S_Empty, S_Object, S_Array,
     S_Required, S_Fields}

ObjectOf(schema) ==
    Obj(<<"type", "properties">>, <<Str("object"), Obj(<<"p">>, <<schema>>)>>)
ArrayOf(schema) == Obj(<<"type", "items">>, <<Str("array"), schema>>)
UnionOf(key, a, b) == Obj(<<key, "description">>, <<Arr(<<a, b>>), Str("u")>>)

RECURSIVE Nested(_)
Nested(n) ==
    IF n = 0 THEN Leaves
    ELSE Nested(n - 1) \cup {ObjectOf(x) : x \in Nested(n - 1)}
                      \cup {ArrayOf(x) : x \in Nested(n - 1)}

Schemas(n) ==
    Nested(n)
        \cup {UnionOf(k, a, b) : k \in {"anyOf", "oneOf", "allOf"}, a, b \in Leaves}
        \cup {S_StringOrNumber, S_Cyclic, S_CyclicItems, S_Shared, S_TypedRequired}
        \cup {Str("string"), Num(0), JsNull, JsUndefined, Arr(<<S_String>>)}

ToolF == Tool("f", "", S_Cyclic)
AsmTools == {<<>>, <<ToolF, Tool("", "d", JsUndefined)>>}

\* Inputs of the pass-through run: each field is missing, holds a value of
\* its native kind, or holds a value of another kind
NativeContents == <<[role |-> "user", parts |-> <<[text |-> T_Hi]>>]>>
NativeChoices ==
    [contents |-> <<NativeArray(NativeContents), NativeString("x")>>,
     systemInstruction |->
         <<NativeObject([role |-> "system", parts |-> <<[text |-> T_BeConcise]>>]),
           NativeString("Be concise.")>>,
     tools |->
         <<NativeArray(<<[functionDeclarations |-> <<[name |-> "f"]>>]>>),
           NativeObject([functionDeclarations |-> <<>>])>>,
     toolConfig |-> <<NativeObject([functionCallingConfig |-> [mode |-> "AUTO"]])>>,
     safetySettings |-> <<NativeArray(<<[category |-> "c", threshold |-> "t"]>>)>>,
     generationConfig |-> <<NativeObject([temperature |-> "0.3"]), NativeNull>>]
GeminiRequests ==
    { [f \in fields |->
          NativeChoices[f][IF Len(NativeChoices[f]) = 1 THEN 1 ELSE choice[f]]] :
          fields \in SUBSET DOMAIN NativeChoices,
          choice \in [DOMAIN NativeChoices -> 1..2] }
GeminiModelNames == {M_Gemini3Pro, M_ClaudeThinking, M_Flash}

AsmMessages ==
    {SystemMessage(StringContent(T_BeConcise)),
     SystemMessage(ArrayContent(<<TextItem(<<"A">>), OtherUrlItem, TextItem(<<"B">>)>>)),
     SystemMessage(StringContent(<<>>)),
     UserMessage(StringContent(T_Hi)),
     AssistantMessage(StringContent(<<"H">>), <<>>),
     AssistantMessage(NullContent, <<CallA>>)}

----------------------------------------------------------------------------
(* Specifications *)

\* The normalisation run
InitNorm == NormInit /\ CacheInit /\ RequestIdle /\ SchemaIdle /\ config = Config(T_Default)
NextNorm == NormalizeOnce \/ NormalizeTwice
SpecNorm == InitNorm /\ [][NextNorm]_vars

\* The cache under any sequence of register calls
InitCache == CacheInit /\ NormIdle /\ RequestIdle /\ SchemaIdle /\ config = Config(T_Default)
NextCache ==
    \/ \E id \in Ids \cup {""}, sig \in Sigs \cup {""} :
           RegisterThoughtSignature(id, sig)
    \/ \E text \in CacheTexts, sig \in Sigs \cup {""} :
           RegisterTextThoughtSignature(text, sig)
SpecCache == InitCache /\ [][NextCache]_vars

\* The fold run: one request of up to MaxMsgs messages, converted with a
\* cache that holds a signature for call_1 and one for the text "H "
InitFold ==
    /\ thoughtSignatureMap = registerThoughtSignature(EmptyMap, "call_1", "sigA")
    /\ textThoughtSignatureMap =
           registerTextThoughtSignature(EmptyMap, T_Hsp, "sigB")
    /\ lastCall = [op |-> "putForText", id |-> "", text |-> T_Hsp, sig |-> "sigB"]
    /\ puts = 2
    /\ NormIdle
    /\ RequestIdle
    /\ SchemaIdle
    /\ config = Config(T_Default)
ReadFoldMessage(message) ==
    Len(openaiMessages) < MaxMsgs /\ ReadMessage(message)
NextFold ==
    \/ \E model \in ModelNames : StartRequest(model, NoParameters, <<>>, TokenA)
    \/ \E message \in FoldMessages : ReadFoldMessage(message)
    \/ FinishRequest
SpecFold == InitFold /\ [][NextFold]_vars

\* The tool run: one request of up to MaxToolMsgs messages whose tool
\* results come in every shape of content
InitTool == CacheInit /\ NormIdle /\ RequestIdle /\ SchemaIdle /\ config = Config(T_Default)
ReadToolRunMessage(message) ==
    Len(openaiMessages) < MaxToolMsgs /\ ReadMessage(message)
NextTool ==
    \/ StartRequest(M_Gemini25Pro, NoParameters, <<>>, TokenA)
    \/ \E message \in ToolRunMessages : ReadToolRunMessage(message)
    \/ FinishRequest
SpecTool == InitTool /\ [][NextTool]_vars

\* The signature run: register calls, then one request of up to MaxSigMsgs
\* messages whose texts meet the registered ones
InitSig == CacheInit /\ NormIdle /\ RequestIdle /\ SchemaIdle /\ config = Config(T_Default)
ReadSigMessage(message) ==
    Len(openaiMessages) < MaxSigMsgs /\ ReadMessage(message)
NextSig ==
    \/ RegisterThoughtSignature("call_1", "sigA")
    \/ \E text \in SigTexts, sig \in Sigs : RegisterTextThoughtSignature(text, sig)
    \/ \E model \in SigModelNames : StartRequest(model, NoParameters, <<>>, TokenA)
    \/ \E message \in SigMessages : ReadSigMessage(message)
    \/ FinishRequest
SpecSig == InitSig /\ [][NextSig]_vars

\* The assembly run: one request of up to MaxAsmMsgs messages, for any of
\* the model names, parameters and configurations
InitAsm == CacheInit /\ NormIdle /\ RequestIdle /\ SchemaIdle /\ config \in Configs
ReadAsmMessage(message) ==
    Len(openaiMessages) < MaxAsmMsgs /\ ReadMessage(message)
NextAsm ==
    \/ \E model \in AsmModelNames, params \in AsmParameters, tools \in AsmTools :
           StartRequest(model, params, tools, TokenA)
    \/ \E message \in AsmMessages : ReadAsmMessage(message)
    \/ FinishRequest
SpecAsm == InitAsm /\ [][NextAsm]_vars

\* The sanitizer run: cleanJsonSchema on a schema, then on its result
InitSchema ==
    /\ CacheInit /\ NormIdle /\ RequestIdle /\ config = Config(T_Default)
    /\ schemaPc = "start"
    /\ schemaIn \in Schemas(MaxNest)
    /\ schemaOnce = NoSchema
    /\ schemaTwice = NoSchema
NextSchema == SanitizeOnce \/ SanitizeTwice
SpecSchema == InitSchema /\ [][NextSchema]_vars

\* The pass-through run: one native request
InitGemini == CacheInit /\ NormIdle /\ RequestIdle /\ SchemaIdle /\ config \in Configs
NextGemini ==
    \E request \in GeminiRequests, model \in GeminiModelNames,
       tok \in {TokenA, TokenB} :
        GenerateFromGemini(request, model, tok)
SpecGemini == InitGemini /\ [][NextGemini]_vars

----------------------------------------------------------------------------
(* Claims about the text normalisation *)

\* C7: normalizeTextForSignature is idempotent: once a text has been
\* normalised, normalising the result again gives the same text.
C7_NormalizeIdempotent ==
    normPc = "twice" => normTwice = normOnce

----------------------------------------------------------------------------
(* Claims about the signature cache *)

\* the signature of a lookup result, Undefined on a miss
SignatureOf(entry) ==
    IF entry = UndefinedEntry THEN Undefined ELSE entry.signature

\* the keys a putForText of text t writes
KeysWritten(t) == {t, Trim(t), normalizeTextForSignature(Trim(t))}

\* C4 as stated: after putForText(t, sig) with non-empty t and sig, whatever
\* the cache held before, getForText hits with sig for t, for trim(t) and for
\* every text whose trimmed-and-normalised form is the non-empty normalised
\* form of t.
C4_AsClaimed ==
    (lastCall.op = "putForText" /\ lastCall.text # <<>> /\ lastCall.sig # "") =>
        LET t == lastCall.text
            sig == lastCall.sig
            map == textThoughtSignatureMap
        IN  /\ SignatureOf(getTextThoughtSignature(map, t)) = sig
            /\ SignatureOf(getTextThoughtSignature(map, Trim(t))) = sig
            /\ \A q \in CacheTexts :
                   (/\ normalizeTextForSignature(t) # <<>>
                    /\ normalizeTextForSignature(Trim(q)) = normalizeTextForSignature(t))
                   => SignatureOf(getTextThoughtSignature(map, q)) = sig

\* C4, amended: a step putForText(t, sig) with non-empty sig and a t that is
\* not whitespace-only leaves a cache in which getForText hits with sig for
\* t and for trim(t), and for every text q whose trimmed-and-normalised form
\* is the non-empty normalised form of t, provided that before the put the
\* cache held no entry under q or trim(q) other than under a key this put
\* writes.
C4_PutStep ==
    (/\ lastCall'.op = "putForText"
     /\ lastCall'.sig # ""
     /\ Trim(lastCall'.text) # <<>>) =>
        LET t == lastCall'.text
            sig == lastCall'.sig
            before == textThoughtSignatureMap
            after == textThoughtSignatureMap'
            Stale(k) == k \in DOMAIN before /\ k \notin KeysWritten(t)
        IN  /\ SignatureOf(getTextThoughtSignature(after, t)) = sig
            /\ SignatureOf(getTextThoughtSignature(after, Trim(t))) = sig
            /\ \A q \in CacheTexts :
                   (/\ normalizeTextForSignature(t) # <<>>
                    /\ normalizeTextForSignature(Trim(q)) = normalizeTextForSignature(t)
                    /\ ~Stale(q)
                    /\ ~Stale(Trim(q)))
                   => SignatureOf(getTextThoughtSignature(after, q)) = sig

C4_PutThenGetHits == [][C4_PutStep]_vars

\* C4 witness: "H\nH" was put with sigA and a lookup of "H\r\nH", which is
\* no key itself, hits with sigA through its normalised form.
C4_Witness ==
    /\ lastCall.op = "putForText"
    /\ lastCall.text = T_HlfH
    /\ lastCall.sig = "sigA"
    /\ T_HcrlfH \notin DOMAIN textThoughtSignatureMap
    /\ SignatureOf(getTextThoughtSignature(textThoughtSignatureMap, T_HcrlfH)) = "sigA"

\* C5: in every reachable cache state getForText of an empty or
\* whitespace-only text misses.
C5_BlankAlwaysMisses ==
    \A q \in CacheTexts :
        Trim(q) = <<>> =>
            getTextThoughtSignature(textThoughtSignatureMap, q) = UndefinedEntry

\* C5 witness: a whitespace-only text was put and is a key of the map, and
\* its lookup still misses.
C5_Witness ==
    /\ lastCall.op = "putForText"
    /\ lastCall.text = <<" ">>
    /\ <<" ">> \in DOMAIN textThoughtSignatureMap
    /\ getTextThoughtSignature(textThoughtSignatureMap, <<" ">>) = UndefinedEntry

\* C6: a put with an empty id or an empty signature leaves the id-keyed
\* cache unchanged; any other put makes get(id) the signature just put and
\* changes get for no other id; an id that get misses stays a miss until it
\* is put (so an id never put is a miss).
C6_PutStep ==
    /\ lastCall'.op = "put" =>
           LET id == lastCall'.id
               sig == lastCall'.sig
           IN  IF id = "" \/ sig = ""
               THEN /\ thoughtSignatureMap' = thoughtSignatureMap
                    /\ textThoughtSignatureMap' = textThoughtSignatureMap
               ELSE /\ getThoughtSignature(thoughtSignatureMap', id) = sig
                    /\ \A other \in (Ids \cup {""}) \ {id} :
                           getThoughtSignature(thoughtSignatureMap', other) =
                               getThoughtSignature(thoughtSignatureMap, other)
    /\ \A id \in Ids \cup {""} :
           (/\ getThoughtSignature(thoughtSignatureMap, id) = Undefined
            /\ ~(lastCall'.op = "put" /\ lastCall'.id = id /\ lastCall'.sig # ""))
           => getThoughtSignature(thoughtSignatureMap', id) = Undefined

C6_IdCache ==
    /\ \A id \in Ids \cup {""} :
           getThoughtSignature(thoughtSignatureMap, id) = Undefined
    /\ [][C6_PutStep]_vars

\* C6 witness: call_1 was put twice, last with sigB, call_2 once with sigA.
C6_Witness ==
    /\ lastCall.op = "put"
    /\ lastCall.id = "call_1"
    /\ lastCall.sig = "sigB"
    /\ puts = 3
    /\ getThoughtSignature(thoughtSignatureMap, "call_1") = "sigB"
    /\ getThoughtSignature(thoughtSignatureMap, "call_2") = "sigA"

----------------------------------------------------------------------------
(* Claims about the fold of the messages *)

Last(seq) == seq[Len(seq)]

\* a step that reads a message of the given role
Reads(role) ==
    /\ pc = "folding"
    /\ Len(openaiMessages') = Len(openaiMessages) + 1
    /\ Last(openaiMessages').role = role

\* the tool_call_ids of the maximal runs of consecutive tool messages
RECURSIVE ToolRunsFrom(_, _, _)
ToolRunsFrom(conv, runs, run) ==
    IF conv = <<>>
    THEN IF run = <<>> THEN runs ELSE Append(runs, run)
    ELSE IF Head(conv).role = "tool"
         THEN ToolRunsFrom(Tail(conv), runs, Append(run, Head(conv).tool_call_id))
         ELSE ToolRunsFrom(Tail(conv),
                           IF run = <<>> THEN runs ELSE Append(runs, run), <<>>)

ToolRuns(conv) == ToolRunsFrom(conv, <<>>, <<>>)

HoldsResponse(turn) ==
    \E j \in 1..Len(turn.parts) : HasFunctionResponse(turn.parts[j])

\* the turns that hold a function response
ResponseTurns(turns) == SelectSeq(turns, HoldsResponse)

\* a turn is a user turn of function responses only, with these ids in order
IsResponseTurnOf(turn, ids) ==
    /\ turn.role = "user"
    /\ Len(turn.parts) = Len(ids)
    /\ \A j \in 1..Len(ids) :
           /\ HasFunctionResponse(turn.parts[j])
           /\ turn.parts[j].functionResponse.id = ids[j]

\* C1 (state part): the turns of the output that hold function responses are,
\* in order, one user turn per maximal run of consecutive tool messages of
\* the conversation the fold reads (the messages without the system
\* messages), each holding exactly the run's k responses in arrival order.
C1_OneTurnPerRun ==
    LET runs == ToolRuns(conversationMessages(openaiMessages))
        turns == ResponseTurns(antigravityMessages)
    IN  /\ Len(turns) = Len(runs)
        /\ \A r \in 1..Len(runs) : IsResponseTurnOf(turns[r], runs[r])

\* C1 (step part): a tool message starts a new user turn exactly when the
\* last output turn is not a user turn that holds a function response, and
\* is appended to that turn otherwise.
C1_ToolStep ==
    Reads("tool") =>
        LET before == antigravityMessages
            after == antigravityMessages'
            merges == /\ before # <<>>
                      /\ Last(before).role = "user"
                      /\ HoldsResponse(Last(before))
        IN  IF merges
            THEN /\ Len(after) = Len(before)
                 /\ Len(Last(after).parts) = Len(Last(before).parts) + 1
            ELSE /\ Len(after) = Len(before) + 1
                 /\ Last(after).role = "user"
                 /\ Len(Last(after).parts) = 1

C1_ToolTurnsMerge == []C1_OneTurnPerRun /\ [][C1_ToolStep]_vars

\* C1 witness: an assistant message with two tool calls and its two results
\* gave a model turn and one user turn with the two responses in call order.
C1_Witness ==
    /\ Len(openaiMessages) = 3
    /\ openaiMessages[1].role = "assistant"
    /\ Len(openaiMessages[1].tool_calls) = 2
    /\ openaiMessages[2] = ToolMessage("call_1", ToolResult)
    /\ openaiMessages[3] = ToolMessage("call_2", ToolResult)
    /\ Len(antigravityMessages) = 2
    /\ IsResponseTurnOf(antigravityMessages[2], <<"call_1", "call_2">>)

\* the parts are function calls for these tool calls, in order
AreCallPartsOf(parts, toolCalls) ==
    /\ Len(parts) = Len(toolCalls)
    /\ \A j \in 1..Len(toolCalls) :
           /\ HasFunctionCall(parts[j])
           /\ parts[j].functionCall.id = toolCalls[j].id
           /\ parts[j].functionCall.name = toolCalls[j].name

\* C2: an assistant message with tool calls and empty or whitespace-only
\* text that arrives when the last output turn is a model turn appends its
\* function-call parts to that turn and adds no turn; an assistant message
\* with non-empty text adds a model turn of its text part followed by its
\* function-call parts, whatever the last turn is.
C2_AssistantStep ==
    Reads("assistant") =>
        LET message == Last(openaiMessages')
            before == antigravityMessages
            after == antigravityMessages'
            n == Len(before)
            hasText == Trim(ContentText(message.content)) # <<>>
            hasCalls == Len(message.tool_calls) > 0
        IN  /\ (hasCalls /\ ~hasText /\ n > 0 /\ Last(before).role = "model") =>
                   /\ Len(after) = n
                   /\ SubSeq(after, 1, n - 1) = SubSeq(before, 1, n - 1)
                   /\ after[n].role = "model"
                   /\ SubSeq(after[n].parts, 1, Len(before[n].parts)) = before[n].parts
                   /\ AreCallPartsOf(
                          SubSeq(after[n].parts, Len(before[n].parts) + 1,
                                 Len(after[n].parts)),
                          message.tool_calls)
            /\ hasText =>
                   /\ Len(after) = n + 1
                   /\ SubSeq(after, 1, n) = before
                   /\ after[n + 1].role = "model"
                   /\ Len(after[n + 1].parts) = 1 + Len(message.tool_calls)
                   /\ HasText(after[n + 1].parts[1])
                   /\ AreCallPartsOf(Tail(after[n + 1].parts), message.tool_calls)

C2_AssistantMerge == [][C2_AssistantStep]_vars

\* C2 witness: an assistant message with text and a call, then one with empty
\* text and two calls: one model turn with the text and the three calls.
C2_Witness ==
    /\ openaiMessages =
           <<AssistantMessage(StringContent(T_H), <<CallA>>),
             AssistantMessage(StringContent(<<>>), <<CallA, CallB>>)>>
    /\ Len(antigravityMessages) = 1
    /\ antigravityMessages[1].role = "model"
    /\ HasText(antigravityMessages[1].parts[1])
    /\ AreCallPartsOf(Tail(antigravityMessages[1].parts), <<CallA, CallA, CallB>>)

\* positions <<turn, part>> of all parts, and of the function responses
PartsOf(turns) ==
    UNION {{<<i, j>> : j \in 1..Len(turns[i].parts)} : i \in 1..Len(turns)}

ResponsesOf(turns) ==
    {ij \in PartsOf(turns) : HasFunctionResponse(turns[ij[1]].parts[ij[2]])}

\* positions <<turn, part>> of the function calls with this id in model turns
CallsWithId(turns, id) ==
    {ij \in PartsOf(turns) :
        /\ turns[ij[1]].role = "model"
        /\ HasFunctionCall(turns[ij[1]].parts[ij[2]])
        /\ turns[ij[1]].parts[ij[2]].functionCall.id = id}

\* the one found first by the backward search: last turn, first part in it
NearestCall(turns, id) ==
    CHOOSE ij \in CallsWithId(turns, id) :
        \A other \in CallsWithId(turns, id) :
            \/ other[1] < ij[1]
            \/ other[1] = ij[1] /\ other[2] >= ij[2]

CallName(turns, ij) == turns[ij[1]].parts[ij[2]].functionCall.name

\* C3: a tool message emits exactly one part, a function response that
\* carries the message's call id; its name is the empty string when no model
\* turn built so far holds a function call with that id, and otherwise the
\* name of such a call: that of the nearest one (last such turn, first such
\* part in it) whenever that one has a name.
C3_ToolStep ==
    Reads("tool") =>
        LET message == Last(openaiMessages')
            before == antigravityMessages
            after == antigravityMessages'
            id == message.tool_call_id
            part == Last(Last(after).parts)
            calls == CallsWithId(before, id)
        IN  /\ Cardinality(PartsOf(after)) = Cardinality(PartsOf(before)) + 1
            /\ Cardinality(ResponsesOf(after)) =
                   Cardinality(ResponsesOf(before)) + 1
            /\ HasFunctionResponse(part)
            /\ part.functionResponse.id = id
            /\ calls = {} => part.functionResponse.name = ""
            /\ calls # {} =>
                   /\ part.functionResponse.name \in
                          {CallName(before, ij) : ij \in calls}
                   /\ CallName(before, NearestCall(before, id)) # "" =>
                          part.functionResponse.name =
                              CallName(before, NearestCall(before, id))

C3_ResponseName == [][C3_ToolStep]_vars

\* C3 witness: a result for call_2 after a model turn that only called
\* call_1 is emitted with the empty name.
C3_Witness ==
    /\ Len(openaiMessages) = 2
    /\ openaiMessages[1].role = "assistant"
    /\ openaiMessages[1].tool_calls = <<CallA>>
    /\ openaiMessages[2] = ToolMessage("call_2", ToolResult)
    /\ Len(antigravityMessages) = 2
    /\ antigravityMessages[2].parts[1].functionResponse.id = "call_2"
    /\ antigravityMessages[2].parts[1].functionResponse.name = ""

----------------------------------------------------------------------------
(* Claims about the signatures attached in a request *)

\* the keys getTextThoughtSignature tries for a text
KeysTried(text) == {text, Trim(text), normalizeTextForSignature(Trim(text))}

\* no entry of the text cache matches the text
NoCachedSignature(text) == KeysTried(text) \cap DOMAIN textThoughtSignatureMap = {}

\* a step that reads an assistant message whose text is not blank
ReadsAssistantText ==
    /\ Reads("assistant")
    /\ Trim(ContentText(Last(openaiMessages').content)) # <<>>

\* C8 as stated: for every assistant turn with non-empty text, every model
\* and every cache state the text part emitted carries exactly the turn's
\* own extracted text.
C8_AsClaimedStep ==
    ReadsAssistantText =>
        /\ Last(antigravityMessages').parts # <<>>
        /\ HasText(Last(antigravityMessages').parts[1])
        /\ Last(antigravityMessages').parts[1].text =
               ContentText(Last(openaiMessages').content)

C8_AsClaimed == [][C8_AsClaimedStep]_vars

\* C8, amended: the text part emitted for an assistant turn with non-empty
\* text carries exactly the turn's own extracted text whenever no signature
\* is attached to it (the model is not signature-eligible, or the lookup
\* misses); when a signature is attached, the part carries the original text
\* of the cache entry that was hit, a registered text that shares its raw,
\* trimmed or normalised key with the turn's text.
C8_TextStep ==
    ReadsAssistantText =>
        LET contentText == ContentText(Last(openaiMessages').content)
            part == Last(antigravityMessages').parts[1]
            registered == {textThoughtSignatureMap[k].text :
                               k \in DOMAIN textThoughtSignatureMap}
        IN  /\ Last(antigravityMessages').parts # <<>>
            /\ HasText(part)
            /\ ~HasThoughtSignature(part) => part.text = contentText
            /\ (~Includes(modelName, Gemini3) \/ NoCachedSignature(contentText)) =>
                   part.text = contentText
            /\ part.text # contentText =>
                   /\ part.text \in registered
                   /\ KeysWritten(part.text) \cap KeysTried(contentText) # {}

C8_TextSent == [][C8_TextStep]_vars

\* C8 witness: "H " is registered, the model is signature-eligible and an
\* assistant turn with text "H" was emitted as "H " with the signature.
C8_Witness ==
    /\ pc = "folding"
    /\ Includes(modelName, Gemini3)
    /\ openaiMessages = <<AssistantMessage(StringContent(T_H), <<>>)>>
    /\ antigravityMessages =
           <<[role |-> "model",
              parts |-> <<[text |-> T_Hsp, thoughtSignature |-> "sigA"]>>]>>

\* C9: when no cached signature matches an assistant turn's non-empty text,
\* or the model is not signature-eligible, the turn is not dropped: a model
\* turn is added whose first part is a text part with exactly that text and
\* no thoughtSignature field.
C9_FallbackStep ==
    (/\ ReadsAssistantText
     /\ \/ ~Includes(modelName, Gemini3)
        \/ NoCachedSignature(ContentText(Last(openaiMessages').content))) =>
        /\ Len(antigravityMessages') = Len(antigravityMessages) + 1
        /\ Last(antigravityMessages').role = "model"
        /\ Last(antigravityMessages').parts # <<>>
        /\ Last(antigravityMessages').parts[1] =
               [text |-> ContentText(Last(openaiMessages').content)]

C9_PlainTextFallback == [][C9_FallbackStep]_vars

\* C9 witness: the cache holds text entries, none for "H\r\nH", and a
\* signature-eligible model sent that text plain.
C9_Witness ==
    /\ Includes(modelName, Gemini3)
    /\ DOMAIN textThoughtSignatureMap # {}
    /\ openaiMessages = <<AssistantMessage(StringContent(T_HcrlfH), <<>>)>>
    /\ antigravityMessages = <<[role |-> "model", parts |-> <<[text |-> T_HcrlfH]>>]>>

\* C10: for a model name that contains "claude" no part of any turn of the
\* returned contents carries a thoughtSignature field.
C10_ClaudeUnsigned ==
    (pc = "done" /\ Includes(requestBody.model, Claude)) =>
        \A i \in 1..Len(requestBody.request.contents) :
            \A j \in 1..Len(requestBody.request.contents[i].parts) :
                ~HasThoughtSignature(requestBody.request.contents[i].parts[j])

\* C10 witness: a signature is cached for call_1, the fold attached it to the
\* function call of a claude request, and the returned contents hold the
\* call without it.
C10_Witness ==
    /\ pc = "done"
    /\ Includes(requestBody.model, Claude)
    /\ getThoughtSignature(thoughtSignatureMap, "call_1") = "sigA"
    /\ Len(antigravityMessages) = 1
    /\ HasThoughtSignature(Last(antigravityMessages[1].parts))
    /\ HasFunctionCall(Last(requestBody.request.contents[1].parts))
    /\ ~HasThoughtSignature(Last(requestBody.request.contents[1].parts))

----------------------------------------------------------------------------
(* Claims about the assembled request *)

GenerationConfig == requestBody.request.generationConfig

\* an assistant message of the history carries at least one tool call
HistoryHasToolCalls ==
    \E i \in 1..Len(openaiMessages) :
        /\ openaiMessages[i].role = "assistant"
        /\ Len(openaiMessages[i].tool_calls) >= 1

\* the decision the claim describes
ThinkingAsClaimed ==
    /\ \/ EndsWith(modelName, ThinkingSuffix)
       \/ modelName \in {M_Gemini25Pro, M_Rev19, M_GptOss}
       \/ StartsWith(modelName, Gemini3ProPrefix)
    /\ ~(Includes(modelName, Claude) /\ HistoryHasToolCalls)

\* C11: in the assembled request thinking is enabled exactly when the model
\* name matches the thinking pattern (suffix -thinking, an allow-listed name,
\* or the prefix) and it is not the case that the name contains claude while
\* an assistant message of the history carries a tool call;
\* thinkingConfig.includeThoughts is that decision and thinkingBudget is the
\* fixed non-zero constant when enabled and 0 otherwise.
C11_ThinkingDecision ==
    pc = "done" =>
        /\ GenerationConfig.thinkingConfig.includeThoughts = ThinkingAsClaimed
        /\ GenerationConfig.thinkingConfig.thinkingBudget =
               IF ThinkingAsClaimed THEN ThinkingBudget ELSE 0
        /\ ThinkingBudget # 0

\* a claude thinking model whose history holds a tool call gets no thinking
C11_Witness ==
    /\ pc = "done"
    /\ EndsWith(modelName, ThinkingSuffix)
    /\ Includes(modelName, Claude)
    /\ HistoryHasToolCalls
    /\ GenerationConfig.thinkingConfig.includeThoughts = FALSE
    /\ GenerationConfig.thinkingConfig.thinkingBudget = 0

\* the value of a parameter the caller supplied, else the static default
SuppliedOrDefault(name) ==
    IF name \in DOMAIN parameters /\ parameters[name] # Null
    THEN parameters[name]
    ELSE config.defaults[name]

\* C12: generationConfig omits topP exactly when the model name contains
\* claude and thinking is enabled; otherwise topP is the top_p of the
\* request when the caller supplied one, else the static default; topK,
\* temperature and maxOutputTokens follow the same fallback.
C12_SamplingParameters ==
    pc = "done" =>
        LET omitted ==
                /\ Includes(modelName, Claude)
                /\ GenerationConfig.thinkingConfig.includeThoughts
        IN  /\ ("topP" \notin DOMAIN GenerationConfig) <=> omitted
            /\ ~omitted => GenerationConfig.topP = SuppliedOrDefault("top_p")
            /\ GenerationConfig.topK = SuppliedOrDefault("top_k")
            /\ GenerationConfig.temperature = SuppliedOrDefault("temperature")
            /\ GenerationConfig.maxOutputTokens = SuppliedOrDefault("max_tokens")

\* a claude thinking request loses topP although the caller supplied top_p,
\* and a temperature of 0 is kept
C12_Witness ==
    /\ pc = "done"
    /\ Includes(modelName, Claude)
    /\ GenerationConfig.thinkingConfig.includeThoughts
    /\ "top_p" \in DOMAIN parameters
    /\ "topP" \notin DOMAIN GenerationConfig
    /\ GenerationConfig.temperature = "0"

\* C13 as stated: every request carries one fixed list of exactly 4 stop
\* tokens.
C13_AsClaimed ==
    pc = "done" => Len(GenerationConfig.stopSequences) = 4

\* C13: every request carries generationConfig.stopSequences equal to one
\* fixed list of exactly 5 tokens, whatever the model, the parameters and
\* the history.
C13_StopSequences ==
    pc = "done" =>
        /\ GenerationConfig.stopSequences =
               <<"<|user|>", "<|bot|>", "<|context_request|>", "<|endoftext|>",
                 "<|end_of_turn|>">>
        /\ Len(GenerationConfig.stopSequences) = 5

\* a request with parameters, a thinking model and a history has the list
C13_Witness ==
    /\ pc = "done"
    /\ parameters # NoParameters
    /\ GenerationConfig.thinkingConfig.includeThoughts
    /\ Len(openaiMessages) >= 2
    /\ Len(GenerationConfig.stopSequences) = 5

\* the texts of the system messages of the history, in order
SystemTexts ==
    LET systems == SelectSeq(openaiMessages, LAMBDA m : m.role = "system")
    IN  [i \in 1..Len(systems) |-> SystemText(systems[i])]

\* the default instruction followed by the system texts, empty ones skipped
InstructionAsClaimed ==
    Join(NonEmpty(<<config.systemInstruction>> \o SystemTexts), DoubleNewline)

\* C14: system messages contribute no turn to contents, which are those of
\* the history without its system messages; systemInstruction.parts[0].text
\* is the configured default instruction followed by the texts of all system
\* messages in order, joined with a double newline, or the literal fallback
\* when that is empty.
C14_SystemInstruction ==
    pc = "done" =>
        /\ requestBody.request.contents =
               StripThoughtSignatures(
                   openaiMessageToAntigravity(
                       SelectSeq(openaiMessages, LAMBDA m : m.role # "system"),
                       modelName, thoughtSignatureMap, textThoughtSignatureMap),
                   modelName)
        /\ Len(requestBody.request.contents) <=
               Cardinality({i \in 1..Len(openaiMessages) :
                               openaiMessages[i].role # "system"})
        /\ requestBody.request.systemInstruction.role = "user"
        /\ Len(requestBody.request.systemInstruction.parts) = 1
        /\ requestBody.request.systemInstruction.parts[1].text =
               IF InstructionAsClaimed = <<>> THEN FallbackInstruction
               ELSE InstructionAsClaimed

\* the system message "Be concise." and the user message "Hi"
C14_Witness ==
    /\ pc = "done"
    /\ openaiMessages =
           <<SystemMessage(StringContent(T_BeConcise)),
             UserMessage(StringContent(T_Hi))>>
    /\ config.systemInstruction = T_Default
    /\ requestBody.request.systemInstruction.parts[1].text =
           T_Default \o DoubleNewline \o T_BeConcise
    /\ Len(requestBody.request.contents) = 1
    /\ requestBody.request.contents[1].role = "user"
    /\ requestBody.request.contents[1].parts = <<[text |-> T_Hi]>>

\* the fallback is used when neither a default nor a system text exists
C14_FallbackReached ==
    /\ pc = "done"
    /\ requestBody.request.systemInstruction.parts[1].text = FallbackInstruction

----------------------------------------------------------------------------
(* Claims about the schema sanitizer *)

BackendTypes == {"string", "number", "integer", "boolean", "array", "object"}

\* a node with a backend type, items under an array type and a properties
\* map under an object type, and so for the nodes below it
RECURSIVE WellFormedNode(_)
WellFormedNode(node) ==
    /\ node.t = "object"
    /\ Get(node, "type").t = "string"
    /\ Get(node, "type").s \in BackendTypes
    /\ Get(node, "type").s = "array" => Has(node, "items")
    /\ Get(node, "type").s = "object" =>
           Has(node, "properties") /\ Get(node, "properties").t = "object"
    /\ Has(node, "items") => WellFormedNode(Get(node, "items"))
    /\ (Has(node, "properties") /\ Get(node, "properties").t = "object") =>
           \A i \in 1..Len(Get(node, "properties").vals) :
               WellFormedNode(Get(node, "properties").vals[i])

\* C15: for every schema object, cleanJsonSchema returns a node whose type
\* is one of string, number, integer, boolean, array, object; every node of
\* the output typed array has items and every node typed object has a
\* properties map.
C15_WellFormedOutput ==
    (schemaPc # "start" /\ schemaIn.t = "object") => WellFormedNode(schemaOnce)

\* equality of two values whatever the order of the keys of their objects
RECURSIVE StructEqual(_, _)
StructEqual(a, b) ==
    /\ a.t = b.t
    /\ CASE a.t = "object" ->
                /\ {a.keys[i] : i \in 1..Len(a.keys)} = {b.keys[i] : i \in 1..Len(b.keys)}
                /\ Len(a.keys) = Len(b.keys)
                /\ \A i \in 1..Len(a.keys) :
                       StructEqual(a.vals[i], Get(b, a.keys[i]))
         [] a.t = "array" ->
                /\ Len(a.items) = Len(b.items)
                /\ \A i \in 1..Len(a.items) : StructEqual(a.items[i], b.items[i])
         [] OTHER -> a = b

\* C16: cleanJsonSchema is idempotent: cleaning what it returned, with a new
\* visited set, gives a structurally equal value.
C16_Idempotent ==
    schemaPc = "twice" => StructEqual(schemaTwice, schemaOnce)

\* a schema with properties and a required list has been cleaned twice
C16_Witness ==
    /\ schemaPc = "twice"
    /\ schemaIn = S_Required
    /\ schemaOnce.t = "object"
    /\ StructEqual(schemaTwice, schemaOnce)

\* C17: cleaning the schema whose property self is the schema ends with the
\* container cleaned as an ordinary object node and the circular-reference
\* marker at the property self.
C17_CyclicSchema ==
    (schemaPc # "start" /\ schemaIn = S_Cyclic) =>
        StructEqual(schemaOnce,
                    Obj(<<"type", "properties">>,
                        <<Str("object"), Obj(<<"self">>, <<CircularReference>>)>>))

\* C18: cleaning {anyOf: [{type: string}, {type: number}]} returns exactly
\* {type: string}, without properties.
C18_PrimitiveUnion ==
    (schemaPc # "start" /\ schemaIn = S_StringOrNumber) =>
        schemaOnce = Obj(<<"type">>, <<Str("string")>>)

\* the backend types of a type array, in order
KnownTypes(types) ==
    SelectSeq(types, LAMBDA x : x.t = "string" /\ x.s \in BackendTypes)

\* C20: cleaning a node whose type is an array that contains null yields the
\* first backend type of the array with nullable true; an array type without
\* a backend type yields string.
C20_TypeArray ==
    (/\ schemaPc # "start"
     /\ schemaIn.t = "object"
     /\ schemaIn.keys = <<"type">>
     /\ schemaIn.vals[1].t = "array") =>
        LET types == schemaIn.vals[1].items
        IN  /\ (Str("null") \in {types[i] : i \in 1..Len(types)}
                   /\ KnownTypes(types) # <<>>) =>
                   /\ Get(schemaOnce, "type") = KnownTypes(types)[1]
                   /\ Get(schemaOnce, "nullable") = Bool(TRUE)
            /\ KnownTypes(types) = <<>> => Get(schemaOnce, "type") = Str("string")

----------------------------------------------------------------------------
(* Claims about the pass-through *)

NativeFieldNames ==
    {"contents", "tools", "toolConfig", "systemInstruction", "generationConfig"}

\* the field is present with the kind a native request gives it
PresentNative(name) ==
    CASE name \in {"contents", "tools"} -> FieldIsArray(geminiRequest, name)
      [] name = "systemInstruction" -> FieldIsObject(geminiRequest, name)
      [] name = "generationConfig" -> FieldIsTruthy(geminiRequest, name)
      [] OTHER -> name \in DOMAIN geminiRequest

\* C19: the pass-through leaves the contents, tools, toolConfig,
\* systemInstruction and generationConfig of a native request unchanged when
\* the request has them (contents and tools as arrays, systemInstruction as
\* an object, generationConfig as a truthy value), fills in the default
\* system instruction and the default generation config only when the
\* request has none, and always attaches the sessionId and projectId of the
\* token and a newly generated request id.
C19_PassThrough ==
    pc = "done" =>
        /\ \A f \in NativeFieldNames :
               PresentNative(f) =>
                   /\ f \in DOMAIN requestBody.request
                   /\ requestBody.request[f] = geminiRequest[f]
        /\ requestBody.request.systemInstruction =
               NativeObject([role |-> "user",
                             parts |-> <<[text |-> config.systemInstruction]>>])
               => ~PresentNative("systemInstruction")
        /\ ~PresentNative("systemInstruction") =>
               requestBody.request.systemInstruction =
                   NativeObject([role |-> "user",
                                 parts |-> <<[text |-> config.systemInstruction]>>])
        /\ ~PresentNative("generationConfig") =>
               LET generationConfig == requestBody.request.generationConfig.value
               IN  /\ generationConfig.stopSequences = StopSequences
                   /\ generationConfig.temperature = config.defaults.temperature
                   /\ generationConfig.thinkingConfig.includeThoughts =
                          (baseEnableThinking(modelName) /\ ~Includes(modelName, Claude))
        /\ requestBody.request.sessionId = token.sessionId
        /\ requestBody.project = token.projectId
        /\ requestIds = 1
        /\ requestBody.requestId = [requestId |-> requestIds]
        /\ requestBody.requestId # NoBody.requestId

\* a request with its own generation config and no system instruction
C19_Witness ==
    /\ pc = "done"
    /\ token = TokenB
    /\ "generationConfig" \in DOMAIN geminiRequest
    /\ "systemInstruction" \notin DOMAIN geminiRequest
    /\ requestBody.request.generationConfig = NativeObject([temperature |-> "0.3"])
    /\ requestBody.request.systemInstruction.value.parts[1].text =
           config.systemInstruction
    /\ requestBody.request.sessionId = "session-b"
    /\ requestBody.project = "project-b"

----------------------------------------------------------------------------
(* Claims about the required list of the sanitizer *)

\* the keys of the properties map of a node, none when it has no such map
PropertyKeys(node) ==
    IF Has(node, "properties") /\ Get(node, "properties").t = "object"
    THEN {Get(node, "properties").keys[i] :
              i \in 1..Len(Get(node, "properties").keys)}
    ELSE {}

\* in the node and the nodes below it, required names only keys of the
\* node's own properties and the staging field is gone
RECURSIVE RequiredWithinProperties(_)
RequiredWithinProperties(node) ==
    node.t = "object" =>
        /\ ~Has(node, "_pendingRequired")
        /\ Has(node, "required") =>
               /\ Get(node, "required").t = "array"
               /\ \A i \in 1..Len(Get(node, "required").items) :
                      /\ Get(node, "required").items[i].t = "string"
                      /\ Get(node, "required").items[i].s \in PropertyKeys(node)
        /\ Has(node, "items") => RequiredWithinProperties(Get(node, "items"))
        /\ \A k \in PropertyKeys(node) :
               RequiredWithinProperties(Get(Get(node, "properties"), k))

\* the names of the required list of the input that the output properties hold
RequiredKept ==
    SelectSeq(Get(schemaIn, "required").items,
              LAMBDA r : r.t = "string" /\ r.s \in PropertyKeys(schemaOnce))

----------------------------------------------------------------------------
(* Claims about the output of a tool result *)

\* the function-response parts of the turns, in order
PartSeq(turns) == Concat([i \in 1..Len(turns) |-> turns[i].parts])
FunctionResponses(turns) == SelectSeq(PartSeq(turns), HasFunctionResponse)
ToolTurns(messages) == SelectSeq(messages, LAMBDA m : m.role = "tool")

\* the first element of an array content that is a text item or a bare string
TextLike(item) == item.type \in {"text", "string"}
TextLikeItems(content) == SelectSeq(content.items, TextLike)

\* the output the normalisation is said to give
NormalizedOutput(content) ==
    IF content.kind = "string" THEN content.text
    ELSE IF content.kind = "object" /\ content.text # <<>> THEN content.text
    ELSE IF content.kind = "array" /\ TextLikeItems(content) # <<>>
         THEN TextLikeItems(content)[1].text
    ELSE JsonStringify(content)

\* C22: the output of every function response is the normalised content of
\* its tool message: a string as it is, the text of a {text} object, the text
\* of the first text-like element of an array, and the stringified content of
\* any other object or array
C22_ToolOutput ==
    \A k \in 1..Len(ToolTurns(openaiMessages)) :
        (/\ k <= Len(FunctionResponses(antigravityMessages))
         /\ ToolTurns(openaiMessages)[k].content.kind \in {"string", "object", "array"})
        => NormalizedOutput(ToolTurns(openaiMessages)[k].content)
               = FunctionResponses(antigravityMessages)[k].functionResponse.response.output

----------------------------------------------------------------------------
(* Claims about the tool traffic of the fold *)

\* the function-call parts of the turns, in order
FunctionCalls(turns) == SelectSeq(PartSeq(turns), HasFunctionCall)
\* the tool calls of the assistant messages, in order
ToolCallsOf(messages) ==
    Concat([i \in 1..Len(messages) |->
               IF messages[i].role = "assistant" THEN messages[i].tool_calls
               ELSE <<>>])

\* the tool traffic of the turns is the tool traffic of the messages
SameToolTraffic(turns, messages) ==
    /\ Len(FunctionCalls(turns)) = Len(ToolCallsOf(messages))
    /\ \A k \in 1..Len(ToolCallsOf(messages)) :
           k <= Len(FunctionCalls(turns)) =>
               /\ FunctionCalls(turns)[k].functionCall.id = ToolCallsOf(messages)[k].id
               /\ FunctionCalls(turns)[k].functionCall.name = ToolCallsOf(messages)[k].name
    /\ Len(FunctionResponses(turns)) = Len(ToolTurns(messages))
    /\ \A k \in 1..Len(ToolTurns(messages)) :
           k <= Len(FunctionResponses(turns)) =>
               FunctionResponses(turns)[k].functionResponse.id
                   = ToolTurns(messages)[k].tool_call_id
    /\ \A i \in 1..Len(turns) : \A j \in 1..Len(turns[i].parts) :
           /\ HasFunctionCall(turns[i].parts[j]) => turns[i].role = "model"
           /\ HasFunctionResponse(turns[i].parts[j]) => turns[i].role = "user"

\* C23: read in order, the function-call parts of the turns are the tool
\* calls of the assistant messages, one for one and in order, the
\* function-response parts are the tool messages, one for one and in order,
\* function calls sit in model turns only and function responses in user
\* turns only; the same holds of the contents of the request body
C23_ToolTraffic ==
    /\ SameToolTraffic(antigravityMessages, openaiMessages)
    /\ pc = "done" => SameToolTraffic(requestBody.request.contents, openaiMessages)

\* C23 witness: two assistant messages with tool calls, the second merged
\* into the turn of the first, then a tool result
C23_Witness ==
    /\ pc = "done"
    /\ Len(openaiMessages) = 3
    /\ openaiMessages[1].tool_calls = <<CallA, CallB>>
    /\ openaiMessages[2].tool_calls = <<CallD>>
    /\ openaiMessages[3] = ToolMessage("call_2", ToolResult)
    /\ Len(requestBody.request.contents) = 2
    /\ Len(FunctionCalls(requestBody.request.contents)) = 3
    /\ Len(FunctionResponses(requestBody.request.contents)) = 1

----------------------------------------------------------------------------
(* Claims about the parts of a turn *)

EveryTurnHasAPart(turns) == \A i \in 1..Len(turns) : Len(turns[i].parts) >= 1

\* C24: every turn of the fold has at least one part, and so has every turn
\* of the contents of the request body, whatever user, assistant and tool
\* messages were read
C24_NoEmptyTurn ==
    /\ EveryTurnHasAPart(antigravityMessages)
    /\ pc = "done" => EveryTurnHasAPart(requestBody.request.contents)

============================================================================
